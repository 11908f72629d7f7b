---------------------------- MODULE NodeRouting ----------------------------
(***************************************************************************)
(* The routing part of one router node: the renderer turns the node's data *)
(* into a list of commands, lane by lane and phase by phase, refuses nodes *)
(* whose data or whose commands are wrong, and Containerlab runs the       *)
(* commands one after the other in the container.                          *)
(*                                                                         *)
(* at counts what is done of a stage: interfaces, lanes, pairs of lanes or *)
(* commands.                                                               *)
(***************************************************************************)
EXTENDS MainRoutes, PolicyRoutes, RelationSelection

CONSTANT Nodes    \* the nodes the control plane model may hand over
ASSUME NodesAssumption == \A n \in Nodes : WellShaped(n)

VARIABLES node, stage, at, lanes, claimed, cmds, kernel
vars == <<node, stage, at, lanes, claimed, cmds, kernel>>

Init ==
    /\ node \in Nodes
    /\ stage = "main"
    /\ at = 0
    /\ lanes = <<>>
    /\ claimed = {}
    /\ cmds = <<>>
    /\ kernel = EmptyKernel

Enter(next) == stage' = next /\ at' = 0
Emit(commands) == cmds' = cmds \o commands

\* The addresses, then static and default routes.
RenderMain ==
    /\ stage = "main"
    /\ Emit(ConnectedRoutes(node, 4) \o ConnectedRoutes(node, 6)
            \o StaticRoutes(node, 4) \o StaticRoutes(node, 6)
            \o DefaultRoutes(node, 4) \o DefaultRoutes(node, 6))
    /\ Enter("relations")
    /\ UNCHANGED <<node, lanes, claimed, kernel>>

RenderRelations ==
    /\ stage = "relations"
    /\ IF Relations(node)
       THEN Emit(RelationRules(node)) /\ Enter("collect")
       ELSE Enter("rejected") /\ UNCHANGED cmds
    /\ UNCHANGED <<node, lanes, claimed, kernel>>

\* Phase 1, one interface: a lane must come with its table and priority.
CollectLane ==
    /\ stage = "collect" /\ at < Len(node.ifs)
    /\ LET i == at + 1
       IN  \/ /\ ~IsLane(node, i)
              /\ at' = i /\ UNCHANGED <<stage, lanes>>
           \/ /\ IsLane(node, i) /\ Allocated(node, i)
              /\ lanes' = Append(lanes, LaneData(node, i))
              /\ at' = i /\ UNCHANGED stage
           \/ /\ IsLane(node, i) /\ ~Allocated(node, i)
              /\ Enter("rejected") /\ UNCHANGED lanes
    /\ UNCHANGED <<node, claimed, cmds, kernel>>

\* Phase 2, one lane.
RenderTables ==
    /\ stage = "tables" /\ at < Len(lanes)
    /\ Emit(LaneTables(node, lanes[at + 1]))
    /\ at' = at + 1
    /\ UNCHANGED <<node, stage, lanes, claimed, kernel>>

\* Phase 3, one lane: its destinations on the interfaces it shares.
ShareDestinations ==
    /\ stage = "shared" /\ at < Len(lanes)
    /\ LET lane == lanes[Descending(lanes)[at + 1]]
           new == NewClaims(claimed, lane, ToSet(lane.shared),
                            lane.priority, lane.table)
       IN  /\ claimed' = claimed \cup new
           /\ Emit(InSomeOrder(new))
    /\ at' = at + 1
    /\ UNCHANGED <<node, stage, lanes, kernel>>

\* Phase 4, one pair: what comes back on the upstream interface is looked up in
\* the downstream table.
CrossLanes ==
    /\ stage = "cross" /\ at < Len(CrossPairs(node, lanes))
    /\ LET pair == CrossPairs(node, lanes)[at + 1]
           new == NewClaims(claimed, pair.ds, {pair.us.on},
                            pair.us.priority, pair.ds.table)
       IN  /\ claimed' = claimed \cup new
           /\ Emit(InSomeOrder(new))
    /\ at' = at + 1
    /\ UNCHANGED <<node, stage, lanes, kernel>>

\* Phase 5, one pair.
AugmentTable ==
    /\ stage = "augment" /\ at < Len(CrossPairs(node, lanes))
    /\ Emit(Augmentation(node, CrossPairs(node, lanes)[at + 1]))
    /\ at' = at + 1
    /\ UNCHANGED <<node, stage, lanes, claimed, kernel>>

\* The end of a loop.
Exhausted ==
    \/ stage = "collect" /\ at = Len(node.ifs)
    \/ stage \in {"tables", "shared"} /\ at = Len(lanes)
    \/ stage \in {"cross", "augment"} /\ at = Len(CrossPairs(node, lanes))

After == [collect |-> "tables", tables |-> "shared", shared |-> "cross",
          cross |-> "augment", augment |-> "uplinks"]

NextPhase ==
    /\ Exhausted
    /\ Enter(After[stage])
    /\ UNCHANGED <<node, lanes, claimed, cmds, kernel>>

RenderUplinks ==
    /\ stage = "uplinks"
    /\ Emit(IF node.bgp THEN UplinkRoutes(node, 4) \o UplinkRoutes(node, 6) ELSE <<>>)
    /\ Enter("validate")
    /\ UNCHANGED <<node, lanes, claimed, kernel>>
----------------------------------------------------------------------------
\* fs370_forwarding_validation.py: the finished list of commands.

Commands == ToSet(cmds)

DestinationRule(c) ==
    /\ c.op = "rule"
    /\ c.from = Default /\ c.to # Default
    /\ ~c.suppress

\* No destination of an interface has two rules by destination that differ.
Unambiguous(commands) ==
    \A c, d \in {e \in commands : DestinationRule(e)} :
        <<c.fam, c.to, c.iif>> = <<d.fam, d.to, d.iif>>
        => <<c.priority, c.table>> = <<d.priority, d.table>>

\* What an access node lists for its main table is there.
AccessRoutesRendered ==
    node.role = "access" =>
    \A f \in Families : \A r \in ToSet(Routes(node, f)) :
        LET via == EffectiveVia(node, r.on, r.route, f)
        IN  (/\ ~r.route.policyOnly
             /\ via # OnLink
             /\ r.route.dst = Default => MainDefaultAllowed(node, r))
            => Route(f, Main, r.route.dst, {Hop(via, r.on)}) \in Commands

\* Only the access routes are checked.
ValidateRoutes ==
    /\ stage = "validate"
    /\ Enter(IF AccessRoutesRendered THEN "deploy" ELSE "rejected")
    /\ UNCHANGED <<node, lanes, claimed, cmds, kernel>>

Validate ==
    /\ stage = "validate"
    /\ Enter(IF Unambiguous(Commands) /\ AccessRoutesRendered
             THEN "deploy" ELSE "rejected")
    /\ UNCHANGED <<node, lanes, claimed, cmds, kernel>>

RunCommand ==
    /\ stage = "deploy" /\ at + 1 \in DOMAIN cmds
    /\ kernel' = Execute(kernel, cmds[at + 1])
    /\ at' = at + 1
    /\ UNCHANGED <<node, stage, lanes, claimed, cmds>>

Finish ==
    /\ stage = "deploy" /\ at + 1 \notin DOMAIN cmds
    /\ Enter("ready")
    /\ UNCHANGED <<node, lanes, claimed, cmds, kernel>>

Next ==
    \/ RenderMain
    \/ RenderRelations
    \/ CollectLane
    \/ RenderTables
    \/ ShareDestinations
    \/ CrossLanes
    \/ AugmentTable
    \/ NextPhase
    \/ RenderUplinks
    \/ Validate
    \/ RunCommand
    \/ Finish

Spec == Init /\ [][Next]_vars
=============================================================================
