---------------------------- MODULE NotebookDeps ----------------------------
(***************************************************************************)
(* What the server computes from the names the cells of a notebook have    *)
(* and depend on (internal/notebook/notebook.go): the cycles, and the      *)
(* cells downstream of a name.  Loops are recursive functions of the       *)
(* number of rounds, so that NotebookProofs can prove about them.          *)
(***************************************************************************)
EXTENDS NotebookCells

-----------------------------------------------------------------------------
\* DependencyCycles: the last cell of a name counts, one without a name does not.
DepsOf ==
    LET named == {cells[i].name : i \in DOMAIN cells} \ {Unnamed}
        lastOf(n) == Max({i \in DOMAIN cells : cells[i].name = n})
    IN [n \in named |-> cells[lastOf(n)].deps]

\* What a search knows: the names under visit, those visited, the cycles found.
Search(deps) == [visiting : SUBSET DOMAIN deps, visited : SUBSET DOMAIN deps,
                 cycles : SUBSET Seq(DOMAIN deps)]

\* A call of walk: the name, the names on the way to it, what is known.
Call(deps) == (DOMAIN deps) \X Seq(DOMAIN deps) \X Search(deps)

\* A name under visit closes a cycle, one visited is left, any other is entered;
\* inner: the calls for the names it depends on, those no cell has passed over.
Close(n, stack, st) ==
    LET first == {i \in DOMAIN stack : stack[i] = n /\ \A j \in 1..(i - 1) : stack[j] # n}
    IN [st EXCEPT !.cycles = @ \cup {Append(SubSeq(stack, i, Len(stack)), n) : i \in first}]

Descend(deps, inner, n, stack, st) ==
    LET over[i \in 0..Len(deps[n])] ==
          IF i = 0 THEN [st EXCEPT !.visiting = @ \cup {n}]
          ELSE IF deps[n][i] \in DOMAIN deps
                 THEN inner[<<deps[n][i], Append(stack, n), over[i - 1]>>]
          ELSE over[i - 1]
        last == over[Len(deps[n])]
    IN [last EXCEPT !.visiting = @ \ {n}, !.visited = @ \cup {n}]

Visit(deps, inner, n, stack, st) ==
    IF n \in st.visiting THEN Close(n, stack, st)
    ELSE IF n \in st.visited THEN st
    ELSE Descend(deps, inner, n, stack, st)

\* The recursion.  A name under visit is not entered again: no more calls are in
\* each other than there are names, and one that closes a cycle.
Walk(deps) ==
    LET depth == Cardinality(DOMAIN deps) + 1
        upTo[k \in 0..depth] ==
          IF k = 0 THEN [c \in Call(deps) |-> c[3]]
          ELSE [c \in Call(deps) |-> Visit(deps, upTo[k - 1], c[1], c[2], c[3])]
    IN upTo[depth]

\* Mutant of walk: a name is visited once it is met.
walkMarked(deps, st, n) ==
    Walk(deps)[<<n, <<>>, [st EXCEPT !.visited = @ \cup (Range(deps[n]) \cap DOMAIN deps)]>>]

walk(deps, st, n) == Walk(deps)[<<n, <<>>, st>>]

\* The names are taken in the order of a map: any.
DependencyCycles(order) ==
    LET deps == DepsOf
        upTo[i \in 0..Len(order)] ==
          IF i = 0 THEN [visiting |-> {}, visited |-> {}, cycles |-> {}]
          ELSE walk(deps, upTo[i - 1], order[i])
    IN upTo[Len(order)].cycles

-----------------------------------------------------------------------------
\* Downstream: sweeps over the cells mark the names that depend on a marked one,
\* until a sweep marks none.
Mark(acc, c) ==
    IF c.name \notin acc.seen /\ Range(c.deps) \cap acc.seen # {}
      THEN [seen |-> acc.seen \cup {c.name}, out |-> acc.out \cup {c.id}]
      ELSE acc

Sweep(acc) ==
    LET upTo[i \in 0..Len(cells)] == IF i = 0 THEN acc ELSE Mark(upTo[i - 1], cells[i])
    IN upTo[Len(cells)]

\* Mutant of Downstream: one sweep.
DownstreamOnce(name) == Sweep([seen |-> {name}, out |-> {}]).out

\* After as many sweeps as it takes; there are never more than cells.
Sweeps(acc) ==
    LET after[k \in 0..Len(cells)] == IF k = 0 THEN acc ELSE Sweep(after[k - 1])
    IN after[Min({k \in 0..Len(cells) : Sweep(after[k]) = after[k]})]

Downstream(name) == Sweeps([seen |-> {name}, out |-> {}]).out

\* In the order of the notebook, and nothing when there is a cycle.
EvaluateDownstream(name, order) ==
    LET wanted == Downstream(name)
        upTo[i \in 0..Len(cells)] ==
          IF i = 0 THEN <<>>
          ELSE IF cells[i].id \in wanted THEN Append(upTo[i - 1], cells[i].id)
          ELSE upTo[i - 1]
    IN IF DependencyCycles(order) # {} THEN <<>> ELSE upTo[Len(cells)]

-----------------------------------------------------------------------------
\* Reference: the names reached from n along the dependencies, those in every set
\* that a dependency of n is in and no dependency leads out of.
Arc(deps, m, n) == m \in DOMAIN deps /\ n \in DOMAIN deps /\ n \in Range(deps[m])

IsClosed(deps, n, S) == \A l \in S \cup {n}, m \in DOMAIN deps : Arc(deps, l, m) => m \in S

Reach(deps, n) ==
    {m \in DOMAIN deps : \A S \in SUBSET DOMAIN deps : IsClosed(deps, n, S) => m \in S}

Cyclic(deps) == \E n \in DOMAIN deps : n \in Reach(deps, n)

\* Whatever order the map gives the names in, a cycle is reported exactly when
\* there is one, and what is reported is one: downstream evaluation is refused
\* for cyclic notebooks only.
CyclesAreFound ==
    LET deps == DepsOf
    IN \A order \in SetToSeqs(DOMAIN deps) :
         /\ DependencyCycles(order) # {} <=> Cyclic(deps)
         /\ \A c \in DependencyCycles(order) :
              /\ Len(c) > 1 /\ c[1] = c[Len(c)]
              /\ \A i \in 1..(Len(c) - 1) : Arc(deps, c[i], c[i + 1])

\* Reference: the names whose cells depend on n, directly or over others, those
\* in every set that holds the names of the cells that depend on n or on it.
IsDependent(n, S) ==
    \A i \in DOMAIN cells : Range(cells[i].deps) \cap (S \cup {n}) # {} => cells[i].name \in S \cup {n}

Dependents(n) ==
    {m \in (Names \cup {Unnamed}) \ {n} :
       \A S \in SUBSET (Names \cup {Unnamed}) : IsDependent(n, S) => m \in S}

\* The cells that depend on n, directly or over others.
DependOn(n) == {i \in DOMAIN cells : Range(cells[i].deps) \cap (Dependents(n) \cup {n}) # {}}

Evaluated(n, order) == {i \in DOMAIN cells : cells[i].id \in Range(EvaluateDownstream(n, order))}

\* The cells evaluated downstream of a name depend on it, however many others are
\* between and in whatever order the cells stand, and a cell that does is among them
\* when its name is its own; a cycle anywhere in the notebook makes it none of them.
\* Of those that share a name, or have none as new cells have, the code takes one
\* and passes over the others.
DownstreamIsReach ==
    \A n \in Names, order \in SetToSeqs(DOMAIN DepsOf) :
      LET alone(i) == \A j \in DOMAIN cells \ {i} : cells[j].name # cells[i].name
      IN IF Cyclic(DepsOf) THEN Evaluated(n, order) = {}
         ELSE /\ Evaluated(n, order) \subseteq DependOn(n)
              /\ {i \in DependOn(n) : alone(i) /\ cells[i].name # n} \subseteq Evaluated(n, order)
=============================================================================
