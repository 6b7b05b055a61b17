-------------------------- MODULE BuildOrder_proofs --------------------------
(***************************************************************************)
(* Proofs about BuildOrder, for every set of recipes and any number of     *)
(* threads.  The inductive invariant says of each call on the stack which  *)
(* names of its package are settled, still to visit, or being visited by   *)
(* the call above it; and that a chain of calls is a path of the graph.    *)
(***************************************************************************)
EXTENDS BuildOrder, Progress, FiniteSetTheorems, TLAPS

\* The calls that visit a package; the outermost one visits the change.
Calls == 2 .. Len(stack)
Visiting(p) == \E k \in Calls : stack[k].pkg = p

\* What the call of p is done with.
Settled(p, q) == q = NoPackage \/ Ordered(q) \/ <<p, q>> \in warned

\* Before and after the walk there is no call, or the outermost one only;
\* during it, processed is what is ordered or being visited, each once.
StackInv ==
  /\ phase \in {"list", "gather", "raised"} =>
       stack = <<>> /\ processed = {} /\ ordered = <<>> /\ warned = {}
  /\ phase = "order" => Len(stack) >= 1 /\ stack[1].pkg = NoPackage
  /\ phase = "printed" => Len(stack) = 1 /\ stack[1].names = {}
  /\ \A k \in Calls : stack[k].pkg \in processed /\ ~Ordered(stack[k].pkg)
  /\ \A k, l \in Calls : stack[k].pkg = stack[l].pkg => k = l
  /\ \A p \in processed : Ordered(p) \/ Visiting(p)
  /\ \A i \in 1 .. Len(ordered) : ordered[i] \in processed

\* A name of a package that is visited is still to do, or it is what the next
\* call visits, or it is settled.
DepsInv ==
  \A k \in Calls : \A n \in recipe.deps[stack[k].pkg] :
    \/ n \in stack[k].names
    \/ k < Len(stack) /\ toadd[n] = stack[k + 1].pkg
    \/ Settled(stack[k].pkg, toadd[n])

\* The names of a call are names of its package.
NamesInv == \A k \in Calls : stack[k].names \subseteq recipe.deps[stack[k].pkg]

\* A call is reached from every call below it.
PathInv == \A k, l \in Calls : k <= l => Reaches(stack[k].pkg, stack[l].pkg)

\* A name stands for a package that goes by it; if no two packages share a
\* name, every package comes to be found by its own.
AliasInv ==
  /\ \A n \in Names : toadd[n] # NoPackage => n \in Aliases(toadd[n])
  /\ \A p \in Packages : left[p] \subseteq Aliases(p)
  /\ \A p \in Packages : left[p] # {} => p \in packages
  /\ phase \in {"order", "printed"} => waiting = {} /\ \A p \in Packages : left[p] = {}
  /\ phase = "list" => packages = {}
  /\ Distinct => \A p \in packages : p \in waiting \/ p \in left[p] \/ toadd[p] = p

\* What has changed is still to visit by the outermost call, or has been met.
RootInv ==
  Distinct /\ phase \in {"order", "printed"} =>
    \A p \in packages : p \in stack[1].names \/ p \in processed

IInv == /\ TypeOK /\ StackInv /\ EachOnce /\ DepsInv /\ NamesInv /\ PathInv
        /\ AliasInv /\ RootInv /\ DepsFirst /\ WarnedOnlyOnCycles

-----------------------------------------------------------------------------
(* Facts about Reaches.                                                    *)

\* Every package reaches itself.
LEMMA ReachesSelf == ASSUME NEW p PROVE Reaches(p, p)
  BY DEF Reaches

\* A dependency of what is reached is reached.
LEMMA ReachesNext ==
  ASSUME NEW p, NEW q \in Packages, NEW r \in Packages, Reaches(p, q), Edge(q, r)
  PROVE  Reaches(p, r)
  BY DEF Reaches

\* The walk changes nothing that the graph is read from.
LEMMA SameGraph ==
  ASSUME recipe' = recipe, toadd' = toadd
  PROVE  /\ \A p, q : Edge(p, q)' <=> Edge(p, q)
         /\ \A p, q : Reaches(p, q)' <=> Reaches(p, q)
<1>1. \A p, q : Edge(p, q)' <=> Edge(p, q)
  BY DEF Edge
<1>2. \A p, q : Reaches(p, q)' <=> Reaches(p, q)
  BY <1>1 DEF Reaches
<1> QED
  BY <1>1, <1>2

-----------------------------------------------------------------------------
(* Before the walk.                                                        *)

\* As long as there is no call and no result, what is said of them holds.
LEMMA NoCalls ==
  ASSUME stack = <<>>, processed = {}, ordered = <<>>, warned = {},
         phase \notin {"order", "printed"}
  PROVE  /\ StackInv /\ EachOnce /\ DepsInv /\ NamesInv /\ PathInv
         /\ RootInv /\ DepsFirst /\ WarnedOnlyOnCycles
<1>1. Calls = {}
  BY DEF Calls
<1>2. 1 .. Len(ordered) = {}
  OBVIOUS
<1> QED
  BY <1>1, <1>2 DEF StackInv, EachOnce, DepsInv, NamesInv, PathInv, RootInv,
     DepsFirst, WarnedOnlyOnCycles, Visiting

LEMMA InitInv == Init => IInv
<1> SUFFICES ASSUME Init PROVE IInv
  OBVIOUS
<1> USE BuildOrderAssumption
<1>1. TypeOK
  BY DEF Init, TypeOK, Frames
<1>2. AliasInv
  BY DEF Init, AliasInv, Aliases
<1>3. stack = <<>> /\ processed = {} /\ ordered = <<>> /\ warned = {}
      /\ phase \notin {"order", "printed"}
  BY DEF Init
<1> QED
  BY <1>1, <1>2, <1>3, NoCalls DEF IInv

\* The steps of the gathering leave the walk where it is: not begun.
LEMMA GatherStep ==
  ASSUME IInv, phase \in {"list", "gather"}, UNCHANGED orderVars,
         phase' \notin {"order", "printed"}, TypeOK', AliasInv'
  PROVE  IInv'
<1>1. /\ stack' = <<>> /\ processed' = {} /\ ordered' = <<>> /\ warned' = {}
      /\ phase' \notin {"order", "printed"}
  BY DEF IInv, StackInv, orderVars
<1>2. Calls' = {}
  BY <1>1 DEF Calls
<1>3. 1 .. Len(ordered') = {}
  BY <1>1
<1>4. (/\ StackInv /\ EachOnce /\ DepsInv /\ NamesInv /\ PathInv
       /\ RootInv /\ DepsFirst /\ WarnedOnlyOnCycles)'
  BY <1>1, <1>2, <1>3 DEF StackInv, EachOnce, DepsInv, NamesInv, PathInv, RootInv,
     DepsFirst, WarnedOnlyOnCycles, Visiting
<1> QED
  BY <1>4 DEF IInv

LEMMA ListStep == IInv /\ ListPackages => IInv'
<1> SUFFICES ASSUME IInv, ListPackages PROVE IInv'
  OBVIOUS
<1> USE BuildOrderAssumption
<1>0. /\ packages = {} /\ stack = <<>> /\ processed = {} /\ ordered = <<>>
      /\ warned = {}
  BY DEF IInv, StackInv, AliasInv, ListPackages
<1>1. TypeOK'
  BY <1>0 DEF IInv, TypeOK, ListPackages, orderVars
<1>2. AliasInv'
  BY DEF IInv, TypeOK, AliasInv, ListPackages, Aliases, Distinct
<1> QED
  BY <1>1, <1>2, GatherStep DEF ListPackages

LEMMA RaiseStep == IInv /\ Raise => IInv'
<1> SUFFICES ASSUME IInv, Raise PROVE IInv'
  OBVIOUS
<1>1. TypeOK'
  BY DEF IInv, TypeOK, Raise, gatherVars, orderVars
<1>2. AliasInv'
  BY DEF IInv, TypeOK, AliasInv, Raise, gatherVars, Aliases, Distinct
<1> QED
  BY <1>1, <1>2, GatherStep DEF Raise

LEMMA StartReadingStep == \A p \in Packages : IInv /\ StartReading(p) => IInv'
<1> SUFFICES ASSUME NEW p \in Packages, IInv, StartReading(p) PROVE IInv'
  OBVIOUS
<1> USE BuildOrderAssumption
<1>1. Aliases(p) \subseteq Names
  BY DEF IInv, TypeOK, Aliases
<1>2. TypeOK'
  BY <1>1 DEF IInv, TypeOK, StartReading, orderVars
<1>3. AliasInv'
  BY <1>1 DEF IInv, TypeOK, AliasInv, StartReading, Aliases, Distinct
<1> QED
  BY <1>2, <1>3, GatherStep DEF StartReading

\* Only here are the names of different packages told apart: the entry that
\* is replaced would be another package's.
LEMMA EnterAliasStep ==
  \A p \in Packages, a \in Names : IInv /\ EnterAlias(p, a) => IInv'
<1> SUFFICES ASSUME NEW p \in Packages, NEW a \in Names, IInv, EnterAlias(p, a)
             PROVE  IInv'
  OBVIOUS
<1> USE BuildOrderAssumption
<1>1. p \in packages /\ a \in Aliases(p)
  BY DEF IInv, TypeOK, AliasInv, EnterAlias
<1>2. TypeOK'
  BY <1>1 DEF IInv, TypeOK, EnterAlias, orderVars
<1>3. ASSUME Distinct, NEW q \in packages, q # p PROVE toadd'[q] = toadd[q]
  <2>1. q \in Aliases(q)
    BY DEF Aliases
  <2>2. a # q
    BY <1>1, <1>3, <2>1 DEF Distinct
  <2> QED
    BY <2>2 DEF IInv, TypeOK, EnterAlias
<1>4. Distinct' <=> Distinct
  BY DEF EnterAlias, Distinct, Aliases
<1>5. ASSUME Distinct, NEW q \in packages
      PROVE  q \in waiting' \/ q \in left'[q] \/ toadd'[q] = q
  BY <1>1, <1>3, <1>5 DEF IInv, TypeOK, AliasInv, EnterAlias
<1>6. AliasInv'
  BY <1>1, <1>4, <1>5 DEF IInv, TypeOK, AliasInv, EnterAlias, Aliases
<1> QED
  BY <1>2, <1>6, GatherStep DEF EnterAlias

LEMMA GatheredStep == IInv /\ Gathered => IInv'
<1> SUFFICES ASSUME IInv, Gathered PROVE IInv'
  OBVIOUS
<1> USE BuildOrderAssumption
<1>1. /\ stack' = <<[pkg |-> NoPackage, names |-> packages]>>
      /\ processed' = {} /\ ordered' = <<>> /\ warned' = {} /\ phase' = "order"
  BY DEF IInv, StackInv, Gathered
<1>2. Calls' = {} /\ 1 .. Len(ordered') = {}
  BY <1>1 DEF Calls
<1>3. TypeOK'
  BY <1>1 DEF IInv, TypeOK, Gathered, gatherVars, Frames
<1>4. AliasInv'
  BY DEF IInv, TypeOK, AliasInv, Gathered, gatherVars, Reading, Aliases, Distinct
<1>5. StackInv'
  BY <1>1, <1>2 DEF StackInv, Visiting
<1>6. RootInv'
  BY <1>1 DEF RootInv, Gathered
<1>7. (EachOnce /\ DepsInv /\ NamesInv /\ PathInv /\ DepsFirst /\ WarnedOnlyOnCycles)'
  BY <1>1, <1>2 DEF EachOnce, DepsInv, NamesInv, PathInv, DepsFirst, WarnedOnlyOnCycles
<1> QED
  BY <1>3, <1>4, <1>5, <1>6, <1>7 DEF IInv

-----------------------------------------------------------------------------
(* The walk.                                                               *)

\* The parts of the invariant that no step of the walk disturbs.
LEMMA WalkFrame ==
  ASSUME IInv, phase = "order", UNCHANGED <<recipe, packages, gatherVars>>,
         phase' \in {"order", "printed"}
  PROVE  AliasInv' /\ (Distinct' <=> Distinct)
  BY DEF IInv, TypeOK, AliasInv, gatherVars, Distinct, Aliases

\* A name leaves the innermost call, and all calls keep their packages.
LEMMA WithoutFacts ==
  ASSUME IInv, phase = "order", NEW n \in Names, n \in top.names,
         stack' = Without(n)
  PROVE  /\ Len(stack) \in Nat /\ Len(stack) >= 1 /\ Len(stack') = Len(stack)
         /\ stack' \in Seq(Frames) /\ Calls' = Calls
         /\ \A k \in 1 .. Len(stack) : stack'[k].pkg = stack[k].pkg
         /\ \A k \in 1 .. Len(stack) : stack'[k].names =
              IF k = Len(stack) THEN stack[k].names \ {n} ELSE stack[k].names
<1> DEFINE L == Len(stack)
           f == [stack[L] EXCEPT !.names = @ \ {n}]
<1>1. L \in Nat /\ L >= 1 /\ stack \in [1 .. L -> Frames]
  BY DEF IInv, TypeOK, StackInv
<1>2. stack[L] \in Frames
  BY <1>1
<1>3. f \in Frames /\ f.pkg = stack[L].pkg /\ f.names = stack[L].names \ {n}
  BY <1>2 DEF Frames
<1>4. stack' = [stack EXCEPT ![L] = f]
  BY DEF Without
<1> HIDE DEF f
<1>5. stack' \in [1 .. L -> Frames]
  BY <1>1, <1>3, <1>4
<1>6. stack' \in Seq(Frames) /\ Len(stack') = L
  BY <1>1, <1>5
<1>7. \A k \in 1 .. L : stack'[k] = IF k = L THEN f ELSE stack[k]
  BY <1>1, <1>4
<1>8. \A k \in 1 .. L :
        /\ stack'[k].pkg = stack[k].pkg
        /\ stack'[k].names = IF k = L THEN stack[k].names \ {n} ELSE stack[k].names
  BY <1>3, <1>7
<1>9. Calls' = Calls
  BY <1>6 DEF Calls
<1> QED
  BY <1>1, <1>6, <1>8, <1>9

\* A name that is settled is dropped: what Skip and WarnCycle have in common.
LEMMA DropStep ==
  ASSUME IInv, NEW n \in Names, Take(n), stack' = Without(n),
         UNCHANGED <<processed, ordered>>, warned \subseteq warned',
         warned' \subseteq (Packages \cup {NoPackage}) \X packages,
         Len(stack) > 1 => Settled(top.pkg, toadd[n])',
         toadd[n] = NoPackage \/ toadd[n] \in processed
  PROVE  /\ TypeOK' /\ StackInv' /\ EachOnce' /\ DepsInv' /\ NamesInv' /\ PathInv'
         /\ AliasInv' /\ RootInv' /\ DepsFirst'
<1> USE BuildOrderAssumption
<1>1. /\ phase = "order" /\ n \in top.names
      /\ UNCHANGED <<recipe, phase, packages, gatherVars, recipe, toadd>>
  BY DEF Take, gatherVars
<1>2. /\ Len(stack) \in Nat /\ Len(stack) >= 1 /\ Len(stack') = Len(stack)
      /\ stack' \in Seq(Frames) /\ Calls' = Calls
      /\ \A k \in 1 .. Len(stack) : stack'[k].pkg = stack[k].pkg
      /\ \A k \in 1 .. Len(stack) : stack'[k].names =
           IF k = Len(stack) THEN stack[k].names \ {n} ELSE stack[k].names
  BY <1>1, WithoutFacts
<1>0. \A k \in Calls :
        /\ k \in 1 .. Len(stack) /\ stack'[k].pkg = stack[k].pkg
        /\ stack'[k].names = IF k = Len(stack) THEN stack[k].names \ {n}
                                               ELSE stack[k].names
  <2> TAKE k \in Calls
  <2>1. k \in 1 .. Len(stack)
    BY <1>2 DEF Calls
  <2> QED
    BY <1>2, <2>1, Zenon
<1>3. TypeOK'
  BY <1>1, <1>2 DEF IInv, TypeOK, gatherVars
<1>4. \A p : (Ordered(p)' <=> Ordered(p)) /\ (Visiting(p)' <=> Visiting(p))
  BY <1>2 DEF Ordered, Visiting, Calls
<1>5. StackInv'
  BY <1>1, <1>2, <1>4 DEF IInv, StackInv, Calls
<1>6. DepsInv'
  <2> SUFFICES ASSUME NEW k \in Calls, NEW m \in recipe.deps[stack[k].pkg]
               PROVE  \/ m \in stack'[k].names
                      \/ k < Len(stack') /\ toadd[m] = stack'[k + 1].pkg
                      \/ Settled(stack[k].pkg, toadd[m])'
    BY <1>1, <1>2 DEF DepsInv, Calls
  <2>1. \/ m \in stack[k].names
        \/ k < Len(stack) /\ toadd[m] = stack[k + 1].pkg
        \/ Settled(stack[k].pkg, toadd[m])
    BY DEF IInv, DepsInv
  <2>2. CASE m \in stack[k].names
    <3>1. CASE k = Len(stack) /\ m = n
      BY <1>1, <1>2, <3>1 DEF top, Calls, Settled, Ordered
    <3>2. CASE ~(k = Len(stack) /\ m = n)
      BY <1>0, <2>2, <3>2
    <3> QED
      BY <3>1, <3>2
  <2>3. CASE k < Len(stack) /\ toadd[m] = stack[k + 1].pkg
    BY <1>2, <2>3 DEF Calls
  <2>4. CASE Settled(stack[k].pkg, toadd[m])
    <3>1. stack'[k].pkg = stack[k].pkg
      BY <1>0
    <3> QED
      BY <1>1, <2>4, <3>1 DEF Settled, Ordered
  <2> QED
    BY <2>1, <2>2, <2>3, <2>4
<1>7. NamesInv'
  BY <1>0, <1>1, <1>2 DEF IInv, NamesInv
<1>8. PathInv'
  BY <1>1, <1>2, SameGraph DEF IInv, PathInv, Calls
<1>9. AliasInv' /\ (Distinct' <=> Distinct)
  BY <1>1, WalkFrame
<1>10. RootInv'
  <2> SUFFICES ASSUME Distinct, NEW p \in packages
               PROVE  p \in stack'[1].names \/ p \in processed
    BY <1>1, <1>9 DEF RootInv
  <2>1. p \in stack[1].names \/ p \in processed
    BY <1>1 DEF IInv, RootInv
  <2>2. CASE p = n
    BY <1>1, <2>2 DEF IInv, TypeOK, AliasInv
  <2>3. CASE p # n
    <3>1. stack'[1].names = IF 1 = Len(stack) THEN stack[1].names \ {n}
                                             ELSE stack[1].names
      <4>1. 1 \in 1 .. Len(stack)
        BY <1>2
      <4> QED
        BY <1>2, <4>1, Zenon
    <3> QED
      BY <2>1, <2>3, <3>1
  <2> QED
    BY <2>2, <2>3
<1>11. EachOnce' /\ DepsFirst'
  BY <1>1 DEF IInv, EachOnce, DepsFirst
<1> QED
  BY <1>3, <1>5, <1>6, <1>7, <1>8, <1>9, <1>10, <1>11

LEMMA SkipStep == \A n \in Names : IInv /\ Skip(n) => IInv'
<1> SUFFICES ASSUME NEW n \in Names, IInv, Skip(n) PROVE IInv'
  OBVIOUS
<1>1. /\ Take(n) /\ stack' = Without(n) /\ UNCHANGED <<processed, ordered, warned>>
      /\ toadd[n] = NoPackage \/ Ordered(toadd[n])
      /\ UNCHANGED <<recipe, toadd>>
  BY DEF Skip, Take, gatherVars
<1>2. Settled(top.pkg, toadd[n])'
  BY <1>1 DEF Settled, Ordered
<1>3. toadd[n] = NoPackage \/ toadd[n] \in processed
  BY <1>1 DEF IInv, StackInv, Ordered
<1>4. WarnedOnlyOnCycles'
  BY <1>1, SameGraph DEF IInv, WarnedOnlyOnCycles
<1> QED
  BY <1>1, <1>2, <1>3, <1>4, DropStep DEF IInv, TypeOK

\* A package met again while it is visited is at or below the innermost call:
\* from there the calls are a path back.
LEMMA WarnCycleStep == \A n \in Names : IInv /\ WarnCycle(n) => IInv'
<1> SUFFICES ASSUME NEW n \in Names, IInv, WarnCycle(n) PROVE IInv'
  OBVIOUS
<1> DEFINE q == toadd[n]
<1> USE BuildOrderAssumption
<1>1. /\ Take(n) /\ stack' = Without(n) /\ UNCHANGED <<processed, ordered>>
      /\ q \in processed /\ ~Ordered(q) /\ warned' = warned \cup {<<top.pkg, q>>}
      /\ UNCHANGED <<recipe, toadd>> /\ phase = "order" /\ n \in top.names
  BY DEF WarnCycle, Take, gatherVars
<1>2. PICK k \in Calls : stack[k].pkg = q
  BY <1>1 DEF IInv, StackInv, Visiting
<1>3. /\ Len(stack) \in Nat /\ Len(stack) \in Calls /\ k <= Len(stack)
      /\ top \in Frames /\ Len(stack') = Len(stack)
      /\ stack'[Len(stack)].pkg = top.pkg
  BY <1>1, <1>2, WithoutFacts DEF IInv, TypeOK, Calls, top
<1>4. top.pkg \in Packages
  BY <1>3 DEF IInv, TypeOK, StackInv, top
<1>5. Edge(top.pkg, q)
  BY <1>1, <1>3 DEF Edge, IInv, NamesInv, top
<1>6. Reaches(q, top.pkg)
  BY <1>2, <1>3 DEF IInv, PathInv, top
<1>7. WarnedOnlyOnCycles'
  <2> SUFFICES ASSUME NEW w \in warned'
               PROVE  w[1] \in Packages /\ Edge(w[1], w[2]) /\ Reaches(w[2], w[1])
    BY <1>1, SameGraph DEF WarnedOnlyOnCycles
  <2>1. CASE w \in warned
    BY <2>1 DEF IInv, WarnedOnlyOnCycles
  <2>2. CASE w = <<top.pkg, q>>
    BY <1>4, <1>5, <1>6, <2>2
  <2> QED
    BY <1>1, <2>1, <2>2
<1>8. Settled(top.pkg, toadd[n])'
  BY <1>1, <1>3 DEF Settled, top
<1>9. /\ warned \subseteq warned'
      /\ warned' \subseteq (Packages \cup {NoPackage}) \X packages
  BY <1>1, <1>4 DEF IInv, TypeOK
<1> QED
  BY <1>1, <1>7, <1>8, <1>9, DropStep DEF IInv

\* A package met for the first time is visited: the call that is added has
\* all of its names to do, and the one below waits for it.
LEMMA DescendStep == \A n \in Names : IInv /\ Descend(n) => IInv'
<1> SUFFICES ASSUME NEW n \in Names, IInv, Descend(n) PROVE IInv'
  OBVIOUS
<1> DEFINE L == Len(stack)
           q == toadd[n]
           f == [pkg |-> q, names |-> recipe.deps[q]]
           W == Without(n)
<1> USE BuildOrderAssumption
<1>1. /\ phase = "order" /\ n \in top.names
      /\ UNCHANGED <<recipe, phase, packages, gatherVars, toadd, ordered, warned>>
      /\ q # NoPackage /\ q \notin processed /\ ~Ordered(q)
      /\ processed' = processed \cup {q} /\ stack' = Append(W, f)
  BY DEF Descend, Take, gatherVars
<1>2. q \in packages /\ q \in Packages /\ recipe.deps[q] \subseteq Names /\ f \in Frames
  BY <1>1 DEF IInv, TypeOK, Frames
<1>3. /\ L \in Nat /\ L >= 1 /\ W \in Seq(Frames) /\ Len(W) = L
      /\ \A k \in 1 .. L : W[k].pkg = stack[k].pkg
      /\ \A k \in 1 .. L : W[k].names =
           IF k = L THEN stack[k].names \ {n} ELSE stack[k].names
  <2> DEFINE g == [stack[L] EXCEPT !.names = @ \ {n}]
  <2>1. L \in Nat /\ L >= 1 /\ stack \in [1 .. L -> Frames]
    BY <1>1 DEF IInv, TypeOK, StackInv
  <2>2. g \in Frames /\ g.pkg = stack[L].pkg /\ g.names = stack[L].names \ {n}
    BY <2>1 DEF Frames
  <2>3. W = [stack EXCEPT ![L] = g]
    BY DEF Without
  <2> HIDE DEF g, W
  <2>4. W \in [1 .. L -> Frames]
    BY <2>1, <2>2, <2>3
  <2>5. W \in Seq(Frames) /\ Len(W) = L
    BY <2>1, <2>4
  <2>6. \A k \in 1 .. L : W[k] = IF k = L THEN g ELSE stack[k]
    BY <2>1, <2>3
  <2> QED
    BY <2>1, <2>2, <2>5, <2>6
<1> HIDE DEF W
<1>4. /\ stack' \in Seq(Frames) /\ Len(stack') = L + 1
      /\ stack'[L + 1] = f
      /\ \A k \in 1 .. L : stack'[k] = W[k]
  BY <1>1, <1>2, <1>3
<1>5. \A k \in Calls : k \in 1 .. L /\ k \in Calls' /\ stack'[k].pkg = stack[k].pkg
  BY <1>3, <1>4 DEF Calls
<1>6. \A k \in Calls' : k \in Calls \/ k = L + 1
  BY <1>3, <1>4 DEF Calls
<1>7. L + 1 \in Calls' /\ L + 1 \notin Calls /\ stack'[L + 1].pkg = q
      /\ stack'[L + 1].names = recipe.deps[q]
  BY <1>3, <1>4 DEF Calls
<1>8. \A k \in Calls : stack[k].pkg \in processed /\ stack[k].pkg # q
  BY <1>1 DEF IInv, StackInv
<1>9. TypeOK'
  BY <1>1, <1>2, <1>4 DEF IInv, TypeOK, gatherVars
<1>10. \A p : Ordered(p)' <=> Ordered(p)
  BY <1>1 DEF Ordered
<1>11. StackInv'
  <2>1. stack'[1].pkg = NoPackage
    BY <1>1, <1>3, <1>4 DEF IInv, StackInv
  <2>2. \A k \in Calls' : stack'[k].pkg \in processed' /\ ~Ordered(stack'[k].pkg)
    <3> SUFFICES ASSUME NEW k \in Calls'
                 PROVE  stack'[k].pkg \in processed' /\ ~Ordered(stack'[k].pkg)
      OBVIOUS
    <3>1. CASE k = L + 1
      BY <1>1, <1>7, <3>1
    <3>2. CASE k \in Calls
      BY <1>1, <1>5, <3>2 DEF IInv, StackInv
    <3> QED
      BY <1>6, <3>1, <3>2
  <2>3. \A k, l \in Calls' : stack'[k].pkg = stack'[l].pkg => k = l
    BY <1>5, <1>6, <1>7, <1>8 DEF IInv, StackInv
  <2>4. \A p \in processed' : Ordered(p)' \/ Visiting(p)'
    <3> SUFFICES ASSUME NEW p \in processed', ~Ordered(p)
                 PROVE  \E k \in Calls' : stack'[k].pkg = p
      BY <1>10 DEF Visiting
    <3>1. CASE p = q
      BY <1>7, <3>1
    <3>2. CASE p # q
      <4>1. PICK k \in Calls : stack[k].pkg = p
        BY <1>1, <3>2 DEF IInv, StackInv, Visiting
      <4> QED
        BY <1>5, <4>1
    <3> QED
      BY <3>1, <3>2
  <2>5. \A i \in 1 .. Len(ordered') : ordered'[i] \in processed'
    BY <1>1 DEF IInv, StackInv
  <2> QED
    <3>1. \A k \in Calls' : stack'[k].pkg \in processed' /\ (~Ordered(stack[k].pkg))'
      BY <1>1, <2>2 DEF Ordered
    <3>2. phase' = "order" /\ Len(stack') >= 1
      BY <1>1, <1>3, <1>4
    <3> HIDE DEF q, f
    <3> QED
      BY <2>1, <2>3, <2>4, <2>5, <3>1, <3>2, Zenon DEF StackInv
<1>12. DepsInv'
  <2> SUFFICES ASSUME NEW k \in Calls', NEW m \in recipe.deps[stack'[k].pkg]
               PROVE  \/ m \in stack'[k].names
                      \/ k < L + 1 /\ toadd[m] = stack'[k + 1].pkg
                      \/ Settled(stack'[k].pkg, toadd[m])
    BY <1>1, <1>4, <1>10 DEF DepsInv, Settled
  <2>1. CASE k = L + 1
    BY <1>7, <2>1
  <2>2. CASE k \in Calls /\ k = L
    <3>1. stack'[k].pkg = stack[k].pkg /\ stack'[k].names = stack[k].names \ {n}
      BY <1>3, <1>4, <1>5, <2>2
    <3>2. m \in stack[k].names \/ Settled(stack[k].pkg, toadd[m])
      BY <2>2, <3>1 DEF IInv, DepsInv
    <3>3. CASE m = n
      BY <1>3, <1>7, <2>2, <3>3
    <3> QED
      BY <3>1, <3>2, <3>3
  <2>3. CASE k \in Calls /\ k # L
    <3>0. k \in 1 .. L /\ stack'[k].pkg = stack[k].pkg
      BY <1>5, <2>3
    <3>01. stack'[k].names = stack[k].names
      BY <1>3, <1>4, <2>3, <3>0
    <3>1. /\ stack'[k].pkg = stack[k].pkg /\ stack'[k].names = stack[k].names
          /\ k + 1 \in Calls /\ k < L
      BY <1>3, <2>3, <3>0, <3>01 DEF Calls
    <3>2. \/ m \in stack[k].names
          \/ k < L /\ toadd[m] = stack[k + 1].pkg
          \/ Settled(stack[k].pkg, toadd[m])
      BY <2>3, <3>1 DEF IInv, DepsInv
    <3>3. stack'[k + 1].pkg = stack[k + 1].pkg
      BY <1>5, <3>1
    <3> QED
      BY <1>3, <3>1, <3>2, <3>3 DEF Calls
  <2> QED
    BY <1>6, <2>1, <2>2, <2>3
<1>13. NamesInv'
  <2> SUFFICES ASSUME NEW k \in Calls'
               PROVE  stack'[k].names \subseteq recipe.deps[stack'[k].pkg]
    BY <1>1 DEF NamesInv
  <2>1. CASE k = L + 1
    BY <1>7, <2>1
  <2>2. CASE k \in Calls
    <3>1. stack'[k].names \subseteq stack[k].names /\ stack'[k].pkg = stack[k].pkg
      BY <1>3, <1>4, <1>5, <2>2
    <3> QED
      BY <2>2, <3>1 DEF IInv, NamesInv
  <2> QED
    BY <1>6, <2>1, <2>2
<1>14. PathInv'
  <2> SUFFICES ASSUME NEW k \in Calls', NEW l \in Calls', k <= l
               PROVE  Reaches(stack'[k].pkg, stack'[l].pkg)
    BY <1>1, SameGraph DEF PathInv
  <2>1. CASE k \in Calls /\ l \in Calls
    BY <1>5, <2>1 DEF IInv, PathInv
  <2>2. CASE k = L + 1 /\ l = L + 1
    BY <2>2, ReachesSelf
  <2>3. CASE k \in Calls /\ l = L + 1
    <3>1. L \in Calls /\ k <= L /\ stack[L].pkg \in Packages
      BY <1>3, <1>8, <2>3 DEF IInv, TypeOK, Calls
    <3>2. Edge(stack[L].pkg, q)
      BY <1>1, <3>1 DEF Edge, IInv, NamesInv, top
    <3>3. Reaches(stack[k].pkg, stack[L].pkg)
      BY <2>3, <3>1 DEF IInv, PathInv
    <3>4. Reaches(stack[k].pkg, q)
      BY <1>2, <3>1, <3>2, <3>3, ReachesNext
    <3> QED
      BY <1>5, <1>7, <2>3, <3>4
  <2>4. CASE k = L + 1 /\ l \in Calls
    BY <1>3, <2>4 DEF Calls
  <2> QED
    BY <1>6, <2>1, <2>2, <2>3, <2>4
<1>15. AliasInv' /\ (Distinct' <=> Distinct)
  BY <1>1, WalkFrame
<1>16. RootInv'
  <2> SUFFICES ASSUME Distinct, NEW p \in packages
               PROVE  p \in stack'[1].names \/ p \in processed'
    BY <1>1, <1>15 DEF RootInv
  <2>1. p \in stack[1].names \/ p \in processed
    BY <1>1 DEF IInv, RootInv
  <2>2. CASE p = n
    BY <1>1, <2>2 DEF IInv, TypeOK, AliasInv
  <2>3. CASE p # n
    <3>1. 1 \in 1 .. L
      BY <1>3
    <3>2. stack'[1].names = IF 1 = L THEN stack[1].names \ {n} ELSE stack[1].names
      BY <1>3, <1>4, <3>1, Zenon
    <3> QED
      BY <1>1, <2>1, <2>3, <3>2
  <2> QED
    BY <2>2, <2>3
<1>17. EachOnce' /\ DepsFirst'
  BY <1>1 DEF IInv, EachOnce, DepsFirst
<1>18. WarnedOnlyOnCycles'
  BY <1>1, SameGraph DEF IInv, WarnedOnlyOnCycles
<1> QED
  BY <1>9, <1>11, <1>12, <1>13, <1>14, <1>15, <1>16, <1>17, <1>18 DEF IInv

\* The innermost call returns: all its names are settled, so its package may
\* follow what is ordered.
LEMMA AscendStep == IInv /\ Ascend => IInv'
<1> SUFFICES ASSUME IInv, Ascend PROVE IInv'
  OBVIOUS
<1> DEFINE L == Len(stack)
           p == stack[L].pkg
           N == Len(ordered)
<1> USE BuildOrderAssumption
<1>1. /\ phase = "order" /\ L > 1 /\ stack[L].names = {}
      /\ UNCHANGED <<recipe, phase, packages, gatherVars, toadd, processed, warned>>
      /\ ordered' = Append(ordered, p) /\ stack' = SubSeq(stack, 1, L - 1)
  BY DEF Ascend, gatherVars, top
<1>2. L \in Nat /\ L \in Calls /\ stack \in Seq(Frames)
  BY <1>1 DEF IInv, TypeOK, Calls
<1>3. p \in processed /\ ~Ordered(p) /\ p \in packages /\ p \in Packages
  BY <1>2 DEF IInv, TypeOK, StackInv
<1>4. /\ N \in Nat /\ Len(ordered') = N + 1 /\ ordered' \in Seq(packages)
      /\ ordered'[N + 1] = p /\ \A i \in 1 .. N : ordered'[i] = ordered[i]
  BY <1>1, <1>3 DEF IInv, TypeOK
<1>5. /\ stack' \in Seq(Frames) /\ Len(stack') = L - 1
      /\ \A k \in 1 .. (L - 1) : stack'[k] = stack[k]
  BY <1>1, <1>2
<1>51. Calls' = 2 .. (L - 1) /\ Calls = 2 .. L
  BY <1>5 DEF Calls
<1>52. \A k \in 2 .. (L - 1) : k \in 1 .. (L - 1) /\ k \in 2 .. L /\ k # L
  BY <1>2
<1>6. \A k \in Calls' : k \in Calls /\ k \in 1 .. (L - 1) /\ stack'[k] = stack[k] /\ k # L
  BY <1>5, <1>51, <1>52
<1>7. \A k \in Calls : k \in Calls' \/ k = L
  BY <1>2, <1>51
<1>8. \A r : Ordered(r)' <=> Ordered(r) \/ r = p
  <2> SUFFICES ASSUME NEW r PROVE Ordered(r)' <=> Ordered(r) \/ r = p
    OBVIOUS
  <2>1. \A i : i \in 1 .. (N + 1) <=> i \in 1 .. N \/ i = N + 1
    BY <1>4
  <2> QED
    BY <1>4, <2>1 DEF Ordered
<1>9. TypeOK'
  BY <1>1, <1>4, <1>5 DEF IInv, TypeOK, gatherVars
<1>10. StackInv'
  <2>1. phase' = "order" /\ Len(stack') >= 1 /\ stack'[1].pkg = NoPackage
    BY <1>1, <1>2, <1>5 DEF IInv, StackInv
  <2>2. \A k \in Calls' : stack'[k].pkg \in processed' /\ (~Ordered(stack[k].pkg))'
    <3> SUFFICES ASSUME NEW k \in Calls'
                 PROVE  stack[k].pkg \in processed /\ ~Ordered(stack[k].pkg)
                        /\ stack[k].pkg # p
      BY <1>1, <1>6, <1>8
    <3> QED
      BY <1>2, <1>6 DEF IInv, StackInv
  <2>3. \A k, l \in Calls' : stack'[k].pkg = stack'[l].pkg => k = l
    BY <1>6 DEF IInv, StackInv
  <2>4. \A r \in processed' : Ordered(r)' \/ Visiting(r)'
    <3> SUFFICES ASSUME NEW r \in processed, ~Ordered(r), r # p
                 PROVE  \E k \in Calls' : stack'[k].pkg = r
      BY <1>1, <1>8 DEF Visiting
    <3>1. PICK k \in Calls : stack[k].pkg = r
      BY DEF IInv, StackInv, Visiting
    <3> QED
      BY <1>6, <1>7, <3>1
  <2>5. \A i \in 1 .. Len(ordered') : ordered'[i] \in processed'
    BY <1>1, <1>3, <1>4 DEF IInv, StackInv
  <2> HIDE DEF p
  <2> QED
    BY <2>1, <2>2, <2>3, <2>4, <2>5, Zenon DEF StackInv
<1>11. EachOnce'
  <2>1. \A i \in 1 .. N : ordered[i] # p
    BY <1>3 DEF Ordered
  <2> SUFFICES ASSUME NEW i \in 1 .. (N + 1), NEW j \in 1 .. (N + 1),
                      ordered'[i] = ordered'[j]
               PROVE  i = j
    BY <1>4 DEF EachOnce
  <2>2. CASE i = N + 1 \/ j = N + 1
    BY <1>4, <2>1, <2>2
  <2>3. CASE i \in 1 .. N /\ j \in 1 .. N
    BY <1>4, <2>3 DEF IInv, EachOnce
  <2> QED
    BY <1>4, <2>2, <2>3
<1>12. DepsInv'
  <2> SUFFICES ASSUME NEW k \in Calls', NEW m \in recipe.deps[stack[k].pkg]
               PROVE  \/ m \in stack[k].names
                      \/ k < L - 1 /\ toadd[m] = stack'[k + 1].pkg
                      \/ Settled(stack[k].pkg, toadd[m]) \/ toadd[m] = p
    BY <1>1, <1>5, <1>6, <1>8 DEF DepsInv, Settled
  <2>1. \/ m \in stack[k].names
        \/ k < L /\ toadd[m] = stack[k + 1].pkg
        \/ Settled(stack[k].pkg, toadd[m])
    BY <1>6 DEF IInv, DepsInv
  <2>2. CASE k + 1 = L
    BY <2>1, <2>2
  <2>3. CASE k + 1 # L
    <3>1. k + 1 \in 1 .. (L - 1) /\ k < L - 1
      BY <1>1, <1>2, <1>6, <2>3
    <3> QED
      BY <1>5, <2>1, <3>1
  <2> QED
    BY <2>2, <2>3
<1>13. NamesInv'
  BY <1>1, <1>6 DEF IInv, NamesInv
<1>14. PathInv'
  BY <1>1, <1>6, SameGraph DEF IInv, PathInv
<1>15. AliasInv' /\ (Distinct' <=> Distinct)
  BY <1>1, WalkFrame
<1>16. RootInv'
  BY <1>1, <1>2, <1>5, <1>15 DEF IInv, RootInv
<1>17. DepsFirst'
  <2> SUFFICES ASSUME NEW i \in 1 .. (N + 1), NEW m \in recipe.deps[ordered'[i]]
               PROVE  \/ toadd[m] = NoPackage
                      \/ \E j \in 1 .. (i - 1) : ordered'[j] = toadd[m]
                      \/ <<ordered'[i], toadd[m]>> \in warned
    BY <1>1, <1>4 DEF DepsFirst
  <2>1. CASE i = N + 1
    <3>1. Settled(p, toadd[m])
      BY <1>1, <1>2, <1>4, <2>1 DEF IInv, DepsInv
    <3>2. CASE Ordered(toadd[m])
      <4>1. PICK j \in 1 .. N : ordered[j] = toadd[m]
        BY <3>2 DEF Ordered
      <4>2. j \in 1 .. (i - 1) /\ ordered'[j] = toadd[m]
        BY <1>4, <2>1, <4>1
      <4> QED
        BY <4>2
    <3>3. CASE toadd[m] = NoPackage \/ <<p, toadd[m]>> \in warned
      BY <1>4, <2>1, <3>3
    <3> QED
      BY <3>1, <3>2, <3>3 DEF Settled
  <2>2. CASE i \in 1 .. N
    <3>1. ordered'[i] = ordered[i] /\ \A j \in 1 .. (i - 1) : ordered'[j] = ordered[j]
      BY <1>4, <2>2
    <3>2. \/ toadd[m] = NoPackage
          \/ \E j \in 1 .. (i - 1) : ordered[j] = toadd[m]
          \/ <<ordered[i], toadd[m]>> \in warned
      BY <2>2, <3>1 DEF IInv, DepsFirst
    <3> QED
      BY <3>1, <3>2
  <2> QED
    BY <1>4, <2>1, <2>2
<1>18. WarnedOnlyOnCycles'
  BY <1>1, SameGraph DEF IInv, WarnedOnlyOnCycles
<1> QED
  BY <1>9, <1>10, <1>11, <1>12, <1>13, <1>14, <1>15, <1>16, <1>17, <1>18 DEF IInv

LEMMA PrintedStep == IInv /\ Printed => IInv'
<1> SUFFICES ASSUME IInv, Printed PROVE IInv'
  OBVIOUS
<1>1. /\ phase = "order" /\ phase' = "printed" /\ Len(stack) = 1 /\ stack[1].names = {}
      /\ UNCHANGED <<recipe, packages, gatherVars, toadd, stack, processed, ordered, warned>>
  BY DEF Printed, gatherVars, orderVars, top
<1>2. TypeOK'
  BY <1>1 DEF IInv, TypeOK, gatherVars
<1>3. StackInv'
  BY <1>1 DEF IInv, StackInv, Calls, Ordered, Visiting
<1>4. AliasInv' /\ (Distinct' <=> Distinct)
  BY <1>1, WalkFrame
<1>5. RootInv'
  BY <1>1, <1>4 DEF IInv, RootInv
<1>6. DepsInv' /\ NamesInv' /\ EachOnce' /\ DepsFirst'
  BY <1>1 DEF IInv, DepsInv, NamesInv, EachOnce, DepsFirst, Calls, Settled, Ordered
<1>7. PathInv' /\ WarnedOnlyOnCycles'
  BY <1>1, SameGraph DEF IInv, PathInv, WarnedOnlyOnCycles, Calls
<1> QED
  BY <1>2, <1>3, <1>4, <1>5, <1>6, <1>7 DEF IInv

LEMMA StutterStep == IInv /\ UNCHANGED vars => IInv'
BY SameGraph DEF vars, IInv, TypeOK, StackInv, EachOnce, DepsInv, NamesInv, PathInv,
   AliasInv, RootInv, DepsFirst, WarnedOnlyOnCycles, Calls, Visiting, Settled, Ordered,
   Distinct, Aliases

-----------------------------------------------------------------------------
\* The invariant holds in every state.
THEOREM Invariance == Spec => []IInv
<1>1. IInv /\ [Next]_vars => IInv'
  <2> SUFFICES ASSUME IInv, [Next]_vars PROVE IInv'
    OBVIOUS
  <2> QED
    BY ListStep, RaiseStep, StartReadingStep, EnterAliasStep, GatheredStep, SkipStep,
       WarnCycleStep, DescendStep, AscendStep, PrintedStep, StutterStep
       DEF Next, Gather, Order, Ended
<1> QED
  BY InitInv, <1>1, PTL DEF Spec

\* .ci/ci-get-build-order.py 72-91: every variable keeps its type, and only
\* packages of the change are ever ordered.
THEOREM OrderTypeCorrect == Spec => []TypeOK
<1>1. IInv => TypeOK
  BY DEF IInv
<1> QED
  BY <1>1, Invariance, PTL

\* 77-85: no package is ordered twice, whatever the recipes say.
THEOREM OrderedOnce == Spec => []EachOnce
<1>1. IInv => EachOnce
  BY DEF IInv
<1> QED
  BY <1>1, Invariance, PTL

\* 84-85: a package is ordered after its dependencies, or a cycle is reported.
THEOREM DependenciesFirst == Spec => []DepsFirst
<1>1. IInv => DepsFirst
  BY DEF IInv
<1> QED
  BY <1>1, Invariance, PTL

\* 79-80: the warning about a cycle is never wrong.
THEOREM WarningsTrue == Spec => []WarnedOnlyOnCycles
<1>1. IInv => WarnedOnlyOnCycles
  BY DEF IInv
<1> QED
  BY <1>1, Invariance, PTL

\* 72-91: if no two packages of a change share a name, the output is exactly
\* the packages of the change, however the threads interleave.
THEOREM ChangeIsOrdered == Spec => []ExactlyChangedIfDistinct
<1>1. ASSUME IInv PROVE ExactlyChangedIfDistinct
  <2> SUFFICES ASSUME Distinct, phase = "printed"
               PROVE  {ordered[i] : i \in 1 .. Len(ordered)} = packages
    BY DEF ExactlyChangedIfDistinct, ExactlyChanged
  <2>1. Calls = {} /\ stack[1].names = {}
    <3>1. Len(stack) = 1 /\ stack[1].names = {}
      BY <1>1 DEF IInv, StackInv
    <3> QED
      BY <3>1 DEF Calls
  <2>2. ASSUME NEW p \in packages PROVE Ordered(p)
    BY <1>1, <2>1 DEF IInv, RootInv, StackInv, Visiting
  <2>3. ASSUME NEW i \in 1 .. Len(ordered) PROVE ordered[i] \in packages
    BY <1>1 DEF IInv, TypeOK
  <2> QED
    BY <2>2, <2>3 DEF Ordered
<1> QED
  BY <1>1, Invariance, PTL

-----------------------------------------------------------------------------
(* That the program comes to an end: how far it has still to go.           *)

\* Aliases the threads have still to enter; names the calls have to visit.
Unread == {e \in Packages \X Names : e[2] \in left[e[1]]}
ToVisit == {e \in (1 .. Len(stack)) \X Names : e[2] \in stack[e[1]].names}

Rank ==
  CASE phase = "list" -> <<3, 0, 0, 0>>
    [] phase = "gather" -> <<2, Cardinality(waiting), Cardinality(Unread), 0>>
    [] phase = "order" ->
         <<1, Cardinality(Packages \ processed), Cardinality(ToVisit), Len(stack)>>
    [] OTHER -> <<0, 0, 0, 0>>

\* A set that has lost an element is smaller.
LEMMA Smaller ==
  ASSUME NEW S, IsFiniteSet(S), NEW T, T \subseteq S, NEW x \in S, x \notin T
  PROVE  /\ IsFiniteSet(T) /\ Cardinality(T) \in Nat /\ Cardinality(S) \in Nat
         /\ Cardinality(T) < Cardinality(S)
<1>1. /\ IsFiniteSet(T) /\ Cardinality(T) <= Cardinality(S)
      /\ Cardinality(S) = Cardinality(T) => S = T
  BY FS_Subset
<1>2. Cardinality(T) \in Nat /\ Cardinality(S) \in Nat
  BY <1>1, FS_CardinalityType
<1>3. QED
  BY <1>1, <1>2

LEMMA RankSets ==
  ASSUME TypeOK
  PROVE  /\ IsFiniteSet(waiting) /\ IsFiniteSet(Unread)
         /\ IsFiniteSet(Packages \ processed) /\ IsFiniteSet(ToVisit)
         /\ Cardinality(waiting) \in Nat /\ Cardinality(Unread) \in Nat
         /\ Cardinality(Packages \ processed) \in Nat /\ Cardinality(ToVisit) \in Nat
         /\ Len(stack) \in Nat
<1>1. IsFiniteSet(Packages) /\ IsFiniteSet(Names)
  BY FiniteNamesAssumption, BuildOrderAssumption, FS_Subset
<1>2. Len(stack) \in Nat /\ IsFiniteSet(1 .. Len(stack))
  <2>1. Len(stack) \in Nat
    BY DEF TypeOK
  <2>2. QED
    BY <2>1, FS_Interval
<1>3. IsFiniteSet(Packages \X Names) /\ IsFiniteSet((1 .. Len(stack)) \X Names)
  BY <1>1, <1>2, FS_Product
<1>4. IsFiniteSet(Unread) /\ IsFiniteSet(ToVisit)
  BY <1>3, FS_Subset DEF Unread, ToVisit
<1>5. IsFiniteSet(waiting) /\ IsFiniteSet(Packages \ processed)
  <2>1. waiting \subseteq Packages /\ Packages \ processed \subseteq Packages
    BY DEF TypeOK
  <2>2. QED
    BY <1>1, <2>1, FS_Subset
<1>6. QED
  BY <1>2, <1>4, <1>5, FS_CardinalityType

RankParts ==
  /\ Cardinality(waiting) \in Nat /\ Cardinality(Unread) \in Nat
  /\ Cardinality(Packages \ processed) \in Nat /\ Cardinality(ToVisit) \in Nat
  /\ Len(stack) \in Nat

LEMMA RankPartsTyped == TypeOK => RankParts
  BY RankSets DEF RankParts

LEMMA RankPartsNext == TypeOK' => RankParts'
  BY RankPartsTyped, PTL

LEMMA RankSetsNext ==
  ASSUME TypeOK'
  PROVE  /\ Cardinality(waiting') \in Nat /\ Cardinality(Unread') \in Nat
         /\ Cardinality(Packages \ processed') \in Nat /\ Cardinality(ToVisit') \in Nat
         /\ Len(stack') \in Nat
  BY RankPartsNext DEF RankParts

LEMMA RankIsRank == TypeOK => Rank \in Ranks
<1> SUFFICES ASSUME TypeOK PROVE Rank \in Ranks
  OBVIOUS
<1>1. phase \in {"list", "gather", "order", "printed", "raised"}
  BY DEF TypeOK
<1>2. QED
  BY <1>1, RankSets, RankTyped DEF Rank

\* The program is as far as it can be, or at least in another phase.
LEMMA PhaseFalls ==
  ASSUME TypeOK, TypeOK',
         \/ phase = "list" /\ phase' \in {"gather", "raised"}
         \/ phase = "gather" /\ phase' \in {"order", "raised"}
         \/ phase = "order" /\ phase' = "printed"
  PROVE  Below(Rank', Rank)
<1>1. \/ phase = "list" /\ Rank = <<3, 0, 0, 0>>
      \/ phase = "gather" /\ Rank = <<2, Cardinality(waiting), Cardinality(Unread), 0>>
      \/ phase = "order" /\
         Rank = <<1, Cardinality(Packages \ processed), Cardinality(ToVisit), Len(stack)>>
  BY DEF Rank
<1>2. \/ phase' = "gather" /\ Rank' = <<2, Cardinality(waiting'), Cardinality(Unread'), 0>>
      \/ phase' = "order" /\ Rank' =
         <<1, Cardinality(Packages \ processed'), Cardinality(ToVisit'), Len(stack')>>
      \/ phase' \in {"raised", "printed"} /\ Rank' = <<0, 0, 0, 0>>
  BY DEF Rank
<1>3. QED
  BY <1>1, <1>2, RankSets, RankSetsNext DEF Below

\* A thread takes one package more, and enters one alias after the other.
LEMMA GatherFalls ==
  ASSUME TypeOK, TypeOK', NEW p \in Packages, NEW a \in Names,
         StartReading(p) \/ EnterAlias(p, a)
  PROVE  Below(Rank', Rank)
<1>1. /\ Rank = <<2, Cardinality(waiting), Cardinality(Unread), 0>>
      /\ Rank' = <<2, Cardinality(waiting'), Cardinality(Unread'), 0>>
  BY DEF StartReading, EnterAlias, Rank
<1>2. CASE StartReading(p)
  <2>1. p \in waiting /\ waiting' = waiting \ {p}
    BY <1>2 DEF StartReading
  <2>2. Cardinality(waiting') < Cardinality(waiting)
    BY <2>1, RankSets, Smaller
  <2>3. QED
    BY <1>1, <2>2, RankSets, RankSetsNext DEF Below
<1>3. CASE EnterAlias(p, a)
  <2>1. /\ waiting' = waiting /\ a \in left[p]
        /\ left' = [left EXCEPT ![p] = @ \ {a}] /\ left \in [Packages -> SUBSET Names]
    BY <1>3 DEF EnterAlias, TypeOK
  <2>2. /\ <<p, a>> \in Unread /\ <<p, a>> \notin Unread'
        /\ \A q \in Packages : left'[q] \subseteq left[q]
    BY <2>1 DEF Unread
  <2>3. Unread' \subseteq Unread
    BY <2>2 DEF Unread
  <2>4. Cardinality(Unread') < Cardinality(Unread)
    BY <2>2, <2>3, RankSets, Smaller
  <2>5. QED
    BY <1>1, <2>1, <2>4, RankSets, RankSetsNext DEF Below
<1>4. QED
  BY <1>2, <1>3

\* A name that is skipped or warned about is visited.
LEMMA DropFalls ==
  ASSUME IInv, TypeOK', NEW n \in Names, Skip(n) \/ WarnCycle(n)
  PROVE  Below(Rank', Rank)
<1>1. /\ phase = "order" /\ phase' = "order" /\ n \in top.names
      /\ processed' = processed /\ stack' = Without(n)
  BY DEF Skip, WarnCycle, Take
<1>2. /\ Len(stack) \in Nat /\ Len(stack) >= 1 /\ Len(stack') = Len(stack)
      /\ \A k \in 1 .. Len(stack) : stack'[k].names =
           IF k = Len(stack) THEN stack[k].names \ {n} ELSE stack[k].names
  BY <1>1, WithoutFacts
<1>3. /\ <<Len(stack), n>> \in ToVisit /\ <<Len(stack), n>> \notin ToVisit'
      /\ ToVisit' \subseteq ToVisit
  <2>1. Len(stack) \in 1 .. Len(stack)
    BY <1>2
  <2>2. \A k \in 1 .. Len(stack) : stack'[k].names \subseteq stack[k].names
    BY <1>2
  <2>3. n \in stack[Len(stack)].names /\ n \notin stack'[Len(stack)].names
    BY <1>1, <1>2, <2>1 DEF top
  <2>4. <<Len(stack), n>> \in ToVisit
    BY <2>1, <2>3 DEF ToVisit
  <2>5. <<Len(stack), n>> \notin ToVisit'
    BY <2>3 DEF ToVisit
  <2>6. ToVisit' \subseteq ToVisit
    BY <1>2, <2>2 DEF ToVisit
  <2>7. QED
    BY <2>4, <2>5, <2>6
<1>4. Cardinality(ToVisit') < Cardinality(ToVisit)
  BY <1>3, RankSets, Smaller DEF IInv
<1>5. /\ Rank = <<1, Cardinality(Packages \ processed), Cardinality(ToVisit), Len(stack)>>
      /\ Rank' = <<1, Cardinality(Packages \ processed), Cardinality(ToVisit'), Len(stack')>>
  BY <1>1 DEF Rank
<1>6. QED
  BY <1>4, <1>5, RankSets, RankSetsNext DEF Below, IInv

\* A package that is visited has not been before.
LEMMA DescendFalls ==
  ASSUME TypeOK, TypeOK', NEW n \in Names, Descend(n)
  PROVE  Below(Rank', Rank)
<1>1. /\ phase = "order" /\ phase' = "order" /\ toadd[n] \in Packages
      /\ toadd[n] \notin processed /\ processed' = processed \cup {toadd[n]}
  BY DEF Descend, Take, TypeOK
<1>2. Cardinality(Packages \ processed') < Cardinality(Packages \ processed)
  <2>1. /\ Packages \ processed' \subseteq Packages \ processed
        /\ toadd[n] \in Packages \ processed /\ toadd[n] \notin Packages \ processed'
    BY <1>1
  <2>2. QED
    BY <2>1, RankSets, Smaller
<1>3. /\ Rank = <<1, Cardinality(Packages \ processed), Cardinality(ToVisit), Len(stack)>>
      /\ Rank' = <<1, Cardinality(Packages \ processed'), Cardinality(ToVisit'), Len(stack')>>
  BY <1>1 DEF Rank
<1>4. QED
  BY <1>2, <1>3, RankSets, RankSetsNext DEF Below

\* A call that returns leaves one call less.
LEMMA AscendFalls ==
  ASSUME TypeOK, TypeOK', Ascend
  PROVE  Below(Rank', Rank)
<1>1. /\ phase = "order" /\ phase' = "order" /\ processed' = processed
      /\ Len(stack) > 1 /\ stack[Len(stack)].names = {}
      /\ stack' = SubSeq(stack, 1, Len(stack) - 1) /\ stack \in Seq(Frames)
  BY DEF Ascend, top, TypeOK
<1>2. /\ Len(stack) \in Nat /\ Len(stack') = Len(stack) - 1
      /\ \A k \in 1 .. Len(stack) - 1 : stack'[k] = stack[k]
  BY <1>1
<1>3. ToVisit' = ToVisit
  <2>1. ASSUME NEW e \in ToVisit PROVE e \in ToVisit'
    BY <1>1, <1>2, <2>1 DEF ToVisit
  <2>2. ASSUME NEW e \in ToVisit' PROVE e \in ToVisit
    BY <1>1, <1>2, <2>2 DEF ToVisit
  <2>3. QED
    BY <2>1, <2>2
<1>4. /\ Rank = <<1, Cardinality(Packages \ processed), Cardinality(ToVisit), Len(stack)>>
      /\ Rank' = <<1, Cardinality(Packages \ processed), Cardinality(ToVisit), Len(stack')>>
  BY <1>1, <1>3 DEF Rank
<1>5. QED
  BY <1>2, <1>4, RankSets, RankSetsNext DEF Below

LEMMA OrderFalls ==
  ASSUME IInv, TypeOK', Gather \/ Raise \/ Order
  PROVE  Below(Rank', Rank)
<1>1. TypeOK
  BY DEF IInv
<1>2. CASE ListPackages \/ Raise \/ Gathered \/ Printed
  BY <1>1, <1>2, PhaseFalls DEF ListPackages, Raise, Gathered, Printed
<1>3. ASSUME NEW p \in Packages, StartReading(p) PROVE Below(Rank', Rank)
  <2>1. p \in Names
    BY BuildOrderAssumption
  <2>2. QED
    BY <1>1, <1>3, <2>1, GatherFalls
<1>4. ASSUME NEW p \in Packages, NEW a \in Names, EnterAlias(p, a)
      PROVE  Below(Rank', Rank)
  BY <1>1, <1>4, GatherFalls
<1>5. ASSUME NEW n \in Names, Skip(n) \/ WarnCycle(n) \/ Descend(n)
      PROVE  Below(Rank', Rank)
  BY <1>1, <1>5, DropFalls, DescendFalls
<1>6. CASE Ascend
  BY <1>1, <1>6, AscendFalls
<1>7. QED
  BY <1>2, <1>3, <1>4, <1>5, <1>6 DEF Gather, Order

\* Every step lowers the rank, but to have ended.
OrderNears == [][Gather \/ Raise \/ Order => Below(Rank', Rank)]_vars

\* 29-91: whatever the recipes say, cycles included, and in whatever order the
\* threads enter their aliases, each step brings the program nearer to its end.
THEOREM OrderComesNearer == Spec => [](Rank \in Ranks) /\ OrderNears
<1>1. IInv /\ TypeOK' /\ [Next]_vars =>
        [Gather \/ Raise \/ Order => Below(Rank', Rank)]_vars
  BY OrderFalls
<1>2. QED
  BY <1>1, Invariance, OrderTypeCorrect, RankIsRank, PTL DEF Spec, OrderNears
=============================================================================
