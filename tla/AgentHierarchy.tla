--------------------------- MODULE AgentHierarchy ---------------------------
(* The hierarchy of a product's agents (core/registry) and the hook that     *)
(* holds agents of type DAG back (core/agents/guards.py).                    *)
EXTENDS Naturals, Sequences, FiniteSets

CONSTANTS
    Members,      \* agents registered for the product
    DagMembers,   \* those of type DAG
    Operations,   \* names of guarded operations
    MaxLinks,     \* bound: links
    MaxHooks      \* bound: validators registered

ASSUME HierarchyAssumption ==
    /\ IsFiniteSet(Members) /\ DagMembers \subseteq Members
    /\ MaxLinks \in Nat /\ MaxHooks \in Nat

VARIABLES
    links,       \* rows <<parent, child>> of hierarchy_map
    walk,        \* a tree being built: the agents in it, and those whose children are gone through
    validators   \* the validators of each operation, each the agents it lets pass

hierarchyVars == <<links, walk, validators>>

\* knew: history, the links there were when the walk began.
NoWalk == [tree |-> <<>>, stack |-> <<>>, knew |-> {}]

HierarchyInit ==
    links = {} /\ walk = NoWalk /\ validators = [op \in Operations |-> <<>>]

\* add_hierarchy_link: no loop, no edge twice.  Nothing asks whether the
\* parent is already below the child.
AddLink(parent, child) ==
    /\ Cardinality(links) < MaxLinks
    /\ parent # child /\ <<parent, child>> \notin links
    /\ links' = links \cup {<<parent, child>>}
    /\ UNCHANGED <<walk, validators>>

RegisterValidator(op, lets) ==
    /\ Len(validators[op]) < MaxHooks
    /\ validators' = [validators EXCEPT ![op] = Append(@, lets)]
    /\ UNCHANGED <<links, walk>>

-----------------------------------------------------------------------------
(* get_hierarchy reads the children of an agent when it comes to the agent:    *)
(* links may be added while it walks.                                          *)

ChildrenOf(agent) == {l[2] : l \in {e \in links : e[1] = agent}}
Frame(agent) == [agent |-> agent, rest |-> ChildrenOf(agent)]

GetHierarchy(root) ==
    /\ walk.stack = <<>>
    /\ walk' = [tree |-> <<root>>, stack |-> <<Frame(root)>>, knew |-> links]
    /\ UNCHANGED <<links, validators>>

Listed == {walk.tree[i] : i \in DOMAIN walk.tree}
Depth == Len(walk.stack)

\* Mutant: what has entered the tree is visited again.
VisitAgain(child) ==
    /\ walk.stack # <<>> /\ child \in walk.stack[Depth].rest
    /\ LET left == [walk.stack EXCEPT ![Depth].rest = @ \ {child}]
       IN  walk' = [walk EXCEPT !.tree = Append(@, child), !.stack = Append(left, Frame(child))]
    /\ UNCHANGED <<links, validators>>

\* _build_hierarchy_node: the next child, in whatever order they were read; what has
\* entered the tree is not visited again.
VisitChild(child) ==
    /\ walk.stack # <<>> /\ child \in walk.stack[Depth].rest
    /\ LET left == [walk.stack EXCEPT ![Depth].rest = @ \ {child}]
       IN  walk' = IF child \in Listed THEN [walk EXCEPT !.stack = left]
                   ELSE [walk EXCEPT !.tree = Append(@, child), !.stack = Append(left, Frame(child))]
    /\ UNCHANGED <<links, validators>>

LeaveNode ==
    /\ walk.stack # <<>> /\ walk.stack[Depth].rest = {}
    /\ walk' = [walk EXCEPT !.stack = SubSeq(@, 1, Depth - 1)]
    /\ UNCHANGED <<links, validators>>

HierarchyNext ==
    \/ \E parent, child \in Members : AddLink(parent, child)
    \/ \E agent \in Members : GetHierarchy(agent) \/ VisitChild(agent)
    \/ LeaveNode
    \/ \E op \in Operations, lets \in SUBSET Members : RegisterValidator(op, lets)

HierarchySpec == HierarchyInit /\ [][HierarchyNext]_hierarchyVars

\* list_root_agents
Roots == {a \in Members : \A e \in links : e[2] # a}

\* DAGConstraintHook.check
Passes(op, a) ==
    a \notin DagMembers
    \/ /\ validators[op] # <<>>
       /\ \A i \in DOMAIN validators[op] : a \in validators[op][i]

-----------------------------------------------------------------------------
\* The agents below one: in every set that holds it and, with an agent, its children.
Closed(edges, T) == \A e \in edges : e[1] \in T => e[2] \in T
Below(edges, agent) ==
    {b \in Members : \A T \in SUBSET Members : agent \in T /\ Closed(edges, T) => b \in T}

\* Whatever links there are or are added while it is built, cycles too, the tree of an
\* agent holds everyone who was below it when the walk began, no one who is not below
\* it at the end, and everyone once (RegistryService.get_hierarchy).
TreeHoldsEveryoneOnce ==
    walk # NoWalk /\ walk.stack = <<>> =>
        /\ Below(walk.knew, walk.tree[1]) \subseteq Listed
        /\ Listed \subseteq Below(links, walk.tree[1])
        /\ \A i, j \in DOMAIN walk.tree : i # j => walk.tree[i] # walk.tree[j]

OnCycle(a) == \E e \in links : e[1] = a /\ a \in Below(links, e[2])

\* Every agent is below a root agent, so in its tree, but those that a cycle of links
\* is above; a root is on none (RegistryService.list_root_agents).
RootsShowAllButCycles ==
    /\ \A a \in Members :
         \/ \E r \in Roots : a \in Below(links, r)
         \/ \E c \in Members : OnCycle(c) /\ a \in Below(links, c)
    /\ \A r \in Roots : ~OnCycle(r)

\* An operation that has a validator gets no wider by another one, and without
\* one it is closed to agents of type DAG (DAGConstraintHook.check).
ValidatorsNarrow ==
    [][\A op \in Operations, a \in Members :
          validators[op] # <<>> => (Passes(op, a)' => Passes(op, a))]_hierarchyVars

\* The hierarchy shows everyone below an agent whatever links were made, and its
\* guards only ever narrow what an operation admits.
HierarchyHolds == [](TreeHoldsEveryoneOnce /\ RootsShowAllButCycles) /\ ValidatorsNarrow
=============================================================================
