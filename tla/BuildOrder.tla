----------------------------- MODULE BuildOrder -----------------------------
(***************************************************************************)
(* .ci/ci-get-build-order.py: of the packages a change touches, a pool of  *)
(* threads reads the recipes into one table of aliases, and a depth-first  *)
(* walk of that table prints the packages, each after its dependencies.    *)
(*                                                                         *)
(* Lists of names are sets that are taken in any order: the code sorts     *)
(* them, and how packages are spelt is not for the order to depend on.     *)
(***************************************************************************)
EXTENDS Naturals, Sequences, FiniteSets

CONSTANTS
  Packages,   \* directories that hold a PKGBUILD
  Names,      \* names a recipe may depend on or provide
  NoPackage,  \* a name that is not in the table
  Recipes,    \* what the recipes may say: [deps, provides]
  Threads     \* os.cpu_count()

ASSUME BuildOrderAssumption ==
  /\ Packages \subseteq Names
  /\ NoPackage \notin Names
  /\ Recipes \subseteq [deps : [Packages -> SUBSET Names],
                        provides : [Packages -> SUBSET Names]]
  /\ Threads \in Nat \ {0}
\* What is written in the recipes is finite.
ASSUME FiniteNamesAssumption == IsFiniteSet(Names)

VARIABLES
  recipe,     \* the recipes of the commit
  phase,      \* where the program is
  packages,   \* list_packages(): what has changed
  waiting,    \* packages no thread has taken yet
  left,       \* per package: aliases its thread has still to enter
  toadd,      \* the table: alias -> package
  stack,      \* calls of get_build_order, the names each has still to visit
  processed,  \* packages with pkg.processed
  ordered,    \* the result
  warned      \* pairs a cycle was reported for

gatherVars == <<waiting, left, toadd>>
orderVars == <<stack, processed, ordered, warned>>
vars == <<recipe, phase, packages, waiting, left, toadd, stack, processed,
          ordered, warned>>

\* ordered holds q.
Ordered(q) == \E i \in 1 .. Len(ordered) : ordered[i] = q

\* What a recipe is entered under: its directory, pkgname and provides.
Aliases(p) == {p} \cup recipe.provides[p]

Init ==
  /\ recipe \in Recipes
  /\ phase = "list" /\ packages = {}
  /\ waiting = {} /\ left = [p \in Packages |-> {}]
  /\ toadd = [n \in Names |-> NoPackage]
  /\ stack = <<>> /\ processed = {} /\ ordered = <<>> /\ warned = {}

-----------------------------------------------------------------------------
\* Mistake: the recipes of packages that did not change are read, too.
ListMore ==
  /\ phase = "list" /\ phase' = "gather"
  /\ packages' \in SUBSET Packages
  /\ waiting' = Packages
  /\ UNCHANGED <<recipe, left, toadd, orderVars>>

\* git names the recipes that differ from upstream or from the last commit.
ListPackages ==
  /\ phase = "list" /\ phase' = "gather"
  /\ packages' \in SUBSET Packages
  /\ waiting' = packages'
  /\ UNCHANGED <<recipe, left, toadd, orderVars>>

\* git fails, or a shell that sources a recipe: the exception ends the
\* program, and what other threads still enter is read by nobody.
Raise ==
  /\ phase \in {"list", "gather"} /\ phase' = "raised"
  /\ UNCHANGED <<recipe, packages, gatherVars, orderVars>>

Reading == {p \in Packages : left[p] # {}}

\* A thread of the pool takes a package and has the shell source its recipe.
StartReading(p) ==
  /\ phase = "gather" /\ p \in waiting
  /\ Cardinality(Reading) < Threads
  /\ waiting' = waiting \ {p}
  /\ left' = [left EXCEPT ![p] = Aliases(p)]
  /\ UNCHANGED <<recipe, phase, packages, toadd, orderVars>>

\* Mistake: the recipe is entered under its provides only.
EnterProvided(p, a) ==
  /\ phase = "gather" /\ a \in left[p]
  /\ left' = [left EXCEPT ![p] = @ \ {a}]
  /\ toadd' = IF a = p /\ recipe.provides[p] # {} THEN toadd
                                                  ELSE [toadd EXCEPT ![a] = p]
  /\ UNCHANGED <<recipe, phase, packages, waiting, orderVars>>

\* One assignment to the dictionary; a later one replaces it.
EnterAlias(p, a) ==
  /\ phase = "gather" /\ a \in left[p]
  /\ left' = [left EXCEPT ![p] = @ \ {a}]
  /\ toadd' = [toadd EXCEPT ![a] = p]
  /\ UNCHANGED <<recipe, phase, packages, waiting, orderVars>>

\* map() returns; the outermost call visits the packages of the change.
Gathered ==
  /\ phase = "gather" /\ waiting = {} /\ Reading = {}
  /\ phase' = "order"
  /\ stack' = <<[pkg |-> NoPackage, names |-> packages]>>
  /\ UNCHANGED <<recipe, packages, gatherVars, processed, ordered, warned>>

-----------------------------------------------------------------------------
(* get_build_order: the loop of the innermost call takes a name.           *)

top == stack[Len(stack)]
Take(n) == /\ phase = "order" /\ n \in top.names
           /\ UNCHANGED <<recipe, phase, packages, gatherVars>>
Without(n) == [stack EXCEPT ![Len(stack)].names = @ \ {n}]

\* Not one of the changed packages, or in the result already.
Skip(n) ==
  /\ Take(n) /\ (toadd[n] = NoPackage \/ Ordered(toadd[n]))
  /\ stack' = Without(n)
  /\ UNCHANGED <<processed, ordered, warned>>

\* Mistake: every package met again is reported.
WarnAlways(n) ==
  /\ Take(n) /\ toadd[n] \in processed
  /\ stack' = Without(n)
  /\ warned' = warned \cup {<<top.pkg, toadd[n]>>}
  /\ UNCHANGED <<processed, ordered>>

\* pkg.processed, and not in the result: the package is being visited.
WarnCycle(n) ==
  /\ Take(n) /\ toadd[n] \in processed /\ ~Ordered(toadd[n])
  /\ stack' = Without(n)
  /\ warned' = warned \cup {<<top.pkg, toadd[n]>>}
  /\ UNCHANGED <<processed, ordered>>

\* Mistake: a package of the result is visited again.
DescendOrdered(n) ==
  /\ Take(n) /\ toadd[n] # NoPackage
  /\ toadd[n] \notin processed \/ Ordered(toadd[n])
  /\ processed' = processed \cup {toadd[n]}
  /\ stack' = Append(Without(n), [pkg |-> toadd[n],
                                  names |-> recipe.deps[toadd[n]]])
  /\ UNCHANGED <<ordered, warned>>

Descend(n) ==
  /\ Take(n) /\ toadd[n] # NoPackage
  /\ toadd[n] \notin processed /\ ~Ordered(toadd[n])
  /\ processed' = processed \cup {toadd[n]}
  /\ stack' = Append(Without(n), [pkg |-> toadd[n],
                                  names |-> recipe.deps[toadd[n]]])
  /\ UNCHANGED <<ordered, warned>>

\* Mistake: the package is put in front of what has been ordered.
AscendInFront ==
  /\ phase = "order" /\ Len(stack) > 1 /\ top.names = {}
  /\ ordered' = <<top.pkg>> \o ordered
  /\ stack' = SubSeq(stack, 1, Len(stack) - 1)
  /\ UNCHANGED <<recipe, phase, packages, gatherVars, processed, warned>>

\* A call whose names are all visited: the inner call returns.
Ascend ==
  /\ phase = "order" /\ Len(stack) > 1 /\ top.names = {}
  /\ ordered' = Append(ordered, top.pkg)
  /\ stack' = SubSeq(stack, 1, Len(stack) - 1)
  /\ UNCHANGED <<recipe, phase, packages, gatherVars, processed, warned>>

\* The outermost call returns and the packages are printed.
Printed ==
  /\ phase = "order" /\ Len(stack) = 1 /\ top.names = {}
  /\ phase' = "printed"
  /\ UNCHANGED <<recipe, packages, gatherVars, orderVars>>

Gather == \/ ListPackages
          \/ \E p \in Packages : StartReading(p)
          \/ \E p \in Packages, a \in Names : EnterAlias(p, a)
          \/ Gathered
Order == \/ \E n \in Names : Skip(n) \/ WarnCycle(n) \/ Descend(n)
         \/ Ascend \/ Printed
Ended == phase \in {"printed", "raised"} /\ UNCHANGED vars

Next == Gather \/ Raise \/ Order \/ Ended
Spec == Init /\ [][Next]_vars

-----------------------------------------------------------------------------
Frames == [pkg : Packages \cup {NoPackage}, names : SUBSET Names]

\* Every variable holds a value of its type; the table holds only packages
\* of the change.
TypeOK ==
  /\ recipe \in Recipes
  /\ phase \in {"list", "gather", "order", "printed", "raised"}
  /\ packages \subseteq Packages /\ waiting \subseteq packages
  /\ left \in [Packages -> SUBSET Names]
  /\ toadd \in [Names -> packages \cup {NoPackage}]
  /\ stack \in Seq(Frames)
  /\ processed \subseteq packages /\ ordered \in Seq(packages)
  /\ warned \subseteq (Packages \cup {NoPackage}) \X packages

\* No package is built twice, whatever the graph.
EachOnce ==
  \A i, j \in 1 .. Len(ordered) : ordered[i] = ordered[j] => i = j

\* A package of the result comes after every package that the table gives for
\* its dependencies, but for those a cycle was reported for.
DepsFirst ==
  \A i \in 1 .. Len(ordered) : \A n \in recipe.deps[ordered[i]] :
    \/ toadd[n] = NoPackage
    \/ \E j \in 1 .. (i - 1) : ordered[j] = toadd[n]
    \/ <<ordered[i], toadd[n]>> \in warned

\* By the table q is a dependency of p.
Edge(p, q) == \E n \in recipe.deps[p] : toadd[n] = q

\* q is p or a dependency of p at some remove: it is in every set that holds
\* p and the dependencies of its members.
Reaches(p, q) ==
  \A S \in SUBSET Packages :
    p \in S /\ (\A x \in S, y \in Packages : Edge(x, y) => y \in S) => q \in S

\* "warning: dependency cycle detected" is true: what is reported does lie on
\* a cycle.
WarnedOnlyOnCycles ==
  \A w \in warned :
    w[1] \in Packages /\ Edge(w[1], w[2]) /\ Reaches(w[2], w[1])

\* No name stands for two of the packages.
Distinct ==
  \A p, q \in packages : Aliases(p) \cap Aliases(q) # {} => p = q

\* "Get changed packages in correct build order": all of them, nothing else.
ExactlyChanged ==
  phase = "printed" => {ordered[i] : i \in 1 .. Len(ordered)} = packages

\* That holds as long as no two packages share a name.
ExactlyChangedIfDistinct == Distinct => ExactlyChanged
=============================================================================
