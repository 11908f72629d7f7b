------------------------- MODULE RelationSelection -------------------------
(***************************************************************************)
(* The rules that send the traffic of one relation to the table of the     *)
(* interface whose policy owns it (relation_selection_rules.py).  The      *)
(* contract behind a selector is checked before anything is rendered.      *)
(***************************************************************************)
EXTENDS NodeData

\* The policy routes that grant what a selector asks for.
Granting(node, s) ==
    {k \in 1..Len(node.ifs[s.policy].routes[s.fam]) :
        LET route == node.ifs[s.policy].routes[s.fam][k]
        IN  /\ route.policyOnly
            /\ route.dst = s.dst
            /\ route.relation = [id |-> s.relation, direction |-> s.direction]}

ValidSelector(node, s) ==
    /\ Default \notin {s.src, s.dst}
    /\ {s.incoming, s.policy} \subseteq Interfaces(node)
    /\ node.ifs[s.policy].alloc # <<>>
    /\ LET alloc == node.ifs[s.policy].alloc[1]
       IN  /\ alloc.ruled
           /\ alloc.table = s.table
           /\ s.priority < alloc.priority
    /\ \E k \in 1..Len(node.ifs[s.policy].routes[s.fam]) : Granting(node, s) = {k}

\* Each family of a relation has two selectors, mirror images of each other.
Paired(selectors) ==
    \A s \in ToSet(selectors) :
        LET group == Keep(selectors, {t \in ToSet(selectors) :
                                          t.relation = s.relation /\ t.fam = s.fam})
        IN  /\ Len(group) = 2
            /\ {group[1].direction, group[2].direction} = {"forward", "return"}
            /\ group[1].src = group[2].dst
            /\ group[1].dst = group[2].src

Relations(node) ==
    /\ \A s \in ToSet(node.selectors) : ValidSelector(node, s)
    /\ Paired(node.selectors)

\* With the priority of the table it selects.
LateRelationRules(node) ==
    [k \in 1..Len(node.selectors) |->
        LET s == node.selectors[k]
        IN  Rule(s.fam, s.src, s.dst, s.incoming,
                 node.ifs[s.policy].alloc[1].priority, s.table, FALSE)]

RelationRules(node) ==
    [k \in 1..Len(node.selectors) |->
        LET s == node.selectors[k]
        IN  Rule(s.fam, s.src, s.dst, s.incoming, s.priority, s.table, FALSE)]
=============================================================================
