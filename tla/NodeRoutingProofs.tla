------------------------- MODULE NodeRoutingProofs -------------------------
(***************************************************************************)
(* Proofs about the routing of a node, for every set of well-shaped nodes: *)
(* the data stays well formed, a destination is claimed once, a deployed   *)
(* kernel never has two rules that disagree about a destination, and how   *)
(* the kernel of a node that is ready forwards: what a relation selects    *)
(* follows its policy, what a lane without routes drops meets a blackhole, *)
(* a resolver's answers find their way, what comes back from upstream      *)
(* reaches the subnet it is for, what several accesses share leaves toward *)
(* the access it belongs to, and what an access sends keeps to its lane.   *)
(*                                                                         *)
(* The argument follows the commands.  The rules and routes that a node    *)
(* may ask for are described once (RuleOf, RouteOf); every phase asks for  *)
(* nothing else, and the loops for all they should; the kernel has nothing *)
(* but what was asked for, and keeps every rule and a route for every      *)
(* destination of a table.  The forwarding of a packet is then a matter of *)
(* which rules can match it and what the routes of a table stem from.      *)
(*                                                                         *)
(* And about the script beside it that copies a learned default route      *)
(* (WanSync), for every set of routers, every number of attempts and of    *)
(* events.                                                                 *)
(***************************************************************************)
EXTENDS NodeRoutingProps, ListLemmas, WanSync, SequenceTheorems, FiniteSetTheorems, TLAPS
----------------------------------------------------------------------------
(***************************************************************************)
(* Groups of next hops, and the routes a lane collects in them.            *)
(***************************************************************************)

\* Groups of next hops: finitely many destinations, none without a hop.
WellGrouped(g) ==
    /\ g = [d \in DOMAIN g |-> g[d]]
    /\ IsFiniteSet(DOMAIN g)
    /\ \A d \in DOMAIN g : IsSequence(g[d]) /\ ToSet(g[d]) # {}

Holds(g, d, h) == d \in DOMAIN g /\ h \in ToSet(g[d])

\* Groups that differ in one hop.
Grown(g, d, h, more) ==
    /\ WellGrouped(more)
    /\ DOMAIN more = DOMAIN g \cup {d}
    /\ \A e, x : Holds(more, e, x) <=> (Holds(g, e, x) \/ (e = d /\ x = h))

LEMMA NoGroupsIs ==
  /\ WellGrouped(NoGroups) /\ DOMAIN NoGroups = {}
  /\ \A d, h : ~Holds(NoGroups, d, h)
<1>1. DOMAIN NoGroups = {} /\ NoGroups = [d \in {} |-> NoGroups[d]]
  BY DEF NoGroups
<1> QED BY <1>1, FS_EmptySet DEF WellGrouped, Holds

LEMMA DomainHolds ==
  ASSUME NEW g, WellGrouped(g)
  PROVE  /\ \A d : d \in DOMAIN g <=> \E h : Holds(g, d, h)
         /\ g = NoGroups <=> DOMAIN g = {}
<1>1. ASSUME DOMAIN g = {} PROVE g = NoGroups
  <2>1. g = [d \in DOMAIN g |-> g[d]]
    BY DEF WellGrouped
  <2>2. g = [d \in {} |-> g[d]]
    BY <1>1, <2>1
  <2>3. [d \in {} |-> g[d]] = [d \in {} |-> <<>>]
    OBVIOUS
  <2> QED BY <2>2, <2>3 DEF NoGroups
<1>2. \A d : d \in DOMAIN g <=> \E h : Holds(g, d, h)
  BY DEF WellGrouped, Holds
<1> QED BY <1>1, <1>2, NoGroupsIs

LEMMA AppendIs ==
  ASSUME NEW s, IsSequence(s), NEW x
  PROVE  IsSequence(Append(s, x)) /\ ToSet(Append(s, x)) = ToSet(s) \cup {x}
<1>1. PICK U : U = ToSet(s) \cup {x}
  OBVIOUS
<1>2. s \in Seq(U)
  <2>1. s \in Seq(ToSet(s)) /\ ToSet(s) \subseteq U
    BY <1>1 DEF IsSequence
  <2> HIDE DEF ToSet
  <2> QED BY <2>1
<1>3. Append(s, x) = s \o <<x>>
  BY <1>1, <1>2
<1>4. IsSequence(<<x>>) /\ ToSet(<<x>>) = {x}
  BY Spelled
<1> QED BY <1>3, <1>4, JoinIs

LEMMA AddHopIs ==
  ASSUME NEW g, WellGrouped(g), NEW d, NEW h
  PROVE  Grown(g, d, h, AddHop(g, d, h))
<1>1. PICK s : s = HopsFor(g, d)
  OBVIOUS
<1>2. IsSequence(s) /\ \A x : x \in ToSet(s) <=> Holds(g, d, x)
  <2>1. IsSequence(<<>>) /\ ToSet(<<>>) = {}
    BY Spelled
  <2> QED BY <1>1, <2>1 DEF HopsFor, WellGrouped, Holds
<1>3. Contains(s, h) <=> h \in ToSet(s)
  BY <1>2, ListIs DEF Contains
<1>4. CASE Contains(s, h)
  <2>1. AddHop(g, d, h) = g
    BY <1>1, <1>4 DEF AddHop
  <2>2. Holds(g, d, h)
    BY <1>2, <1>3, <1>4
  <2>3. d \in DOMAIN g
    BY <2>2 DEF Holds
  <2> QED BY <2>1, <2>2, <2>3 DEF Grown
<1>5. CASE ~Contains(s, h)
  <2>1. PICK t : t = Append(s, h)
    OBVIOUS
  <2>2. IsSequence(t) /\ ToSet(t) = ToSet(s) \cup {h}
    BY <1>2, <2>1, AppendIs
  <2>3. PICK D : D = DOMAIN g \cup {d}
    OBVIOUS
  <2>4. PICK a : a = [e \in D |-> IF e = d THEN t ELSE g[e]]
    OBVIOUS
  <2>5. AddHop(g, d, h) = a
    BY <1>1, <1>5, <2>1, <2>3, <2>4 DEF AddHop
  <2>6. /\ DOMAIN a = D /\ a = [e \in D |-> a[e]]
        /\ a[d] = t /\ \A e \in D : e # d => e \in DOMAIN g /\ a[e] = g[e]
    BY <2>3, <2>4
  <2>7. IsFiniteSet(D)
    <3>1. IsFiniteSet(DOMAIN g)
      BY DEF WellGrouped
    <3> QED BY <2>3, <3>1, FS_AddElement
  <2>8. \A e \in D : IsSequence(a[e]) /\ ToSet(a[e]) # {}
    BY <2>2, <2>6 DEF WellGrouped
  <2>9. \A e, x : Holds(a, e, x) <=> (Holds(g, e, x) \/ (e = d /\ x = h))
    <3> SUFFICES ASSUME NEW e, NEW x
                 PROVE  Holds(a, e, x) <=> (Holds(g, e, x) \/ (e = d /\ x = h))
      OBVIOUS
    <3>1. CASE e = d
      <4>1. Holds(a, d, x) <=> x \in ToSet(t)
        BY <2>3, <2>6 DEF Holds
      <4> QED BY <1>2, <2>2, <3>1, <4>1
    <3>2. CASE e # d
      BY <2>3, <2>6, <3>2 DEF Holds
    <3> QED BY <3>1, <3>2
  <2> QED BY <2>3, <2>5, <2>6, <2>7, <2>8, <2>9 DEF Grown, WellGrouped
<1> QED BY <1>4, <1>5

LEMMA WithoutIs ==
  ASSUME NEW g, WellGrouped(g), NEW d
  PROVE  /\ WellGrouped(Without(g, d)) /\ DOMAIN Without(g, d) = DOMAIN g \ {d}
         /\ \A e, x : Holds(Without(g, d), e, x) <=> (Holds(g, e, x) /\ e # d)
<1>1. PICK D : D = DOMAIN g \ {d}
  OBVIOUS
<1>2. PICK a : a = [e \in D |-> g[e]]
  OBVIOUS
<1>3. Without(g, d) = a
  BY <1>1, <1>2 DEF Without, Restrict
<1>4. DOMAIN a = D /\ a = [e \in D |-> a[e]] /\ \A e \in D : a[e] = g[e]
  BY <1>2
<1>5. IsFiniteSet(D)
  <2>1. IsFiniteSet(DOMAIN g) /\ D \subseteq DOMAIN g
    BY <1>1 DEF WellGrouped
  <2> QED BY <2>1, FS_Subset
<1>6. WellGrouped(a)
  BY <1>1, <1>4, <1>5 DEF WellGrouped
<1>7. \A e, x : Holds(a, e, x) <=> (Holds(g, e, x) /\ e # d)
  BY <1>1, <1>4 DEF Holds
<1> QED BY <1>1, <1>3, <1>4, <1>6, <1>7

\* A list of hops is added one by one.
LEMMA AddAllIs ==
  ASSUME NEW groups, WellGrouped(groups), NEW listed, IsSequence(listed)
  PROVE  /\ WellGrouped(AddAll(groups, listed))
         /\ \A d, h : Holds(AddAll(groups, listed), d, h)
                      <=> \/ Holds(groups, d, h)
                          \/ \E k \in 1 .. Len(listed) :
                                 listed[k].dst = d /\ listed[k].hop = h
<1>0. PICK n \in Nat : n = Len(listed)
  BY ListIs
<1> DEFINE Step(k, g) == AddHop(g, listed[k].dst, listed[k].hop)
           Built(m, u) == u = [k \in 0 .. m |-> IF k = 0 THEN groups ELSE Step(k, u[k - 1])]
           S == {m \in 0 .. n : \E u : Built(m, u)}
<1>1. AddAll(groups, listed) = (CHOOSE u : Built(n, u))[n]
  BY <1>0 DEF AddAll
<1> HIDE DEF Step
<1>2. 0 \in S
  <2>1. Built(0, [k \in 0 .. 0 |-> groups])
    OBVIOUS
  <2>2. 0 \in 0 .. n
    BY <1>0
  <2> HIDE DEF Built
  <2> QED BY <2>1, <2>2
<1>3. ASSUME NEW m \in 1 .. n, m - 1 \in S PROVE m \in S
  <2>1. PICK u : Built(m - 1, u)
    BY <1>3
  <2>2. PICK v : v = [k \in 0 .. m |-> IF k = m THEN Step(m, u[m - 1]) ELSE u[k]]
    OBVIOUS
  <2>3. ASSUME NEW k \in 0 .. m PROVE v[k] = IF k = 0 THEN groups ELSE Step(k, v[k - 1])
    <3>1. CASE k = m
      <4>1. m - 1 \in 0 .. m /\ m - 1 # m /\ m # 0
        OBVIOUS
      <4>2. v[m] = Step(m, u[m - 1]) /\ v[m - 1] = u[m - 1]
        BY <2>2, <4>1
      <4> QED BY <3>1, <4>1, <4>2
    <3>2. CASE k # m
      <4>1. k \in 0 .. m - 1 /\ v[k] = u[k]
        BY <2>2, <3>2
      <4>2. u[k] = IF k = 0 THEN groups ELSE Step(k, u[k - 1])
        BY <2>1, <4>1
      <4>3. k # 0 => k - 1 \in 0 .. m /\ k - 1 # m
        BY <4>1
      <4>4. k # 0 => v[k - 1] = u[k - 1]
        BY <2>2, <4>3
      <4> QED BY <4>1, <4>2, <4>4
    <3> QED BY <3>1, <3>2
  <2>4. v = [k \in 0 .. m |-> v[k]]
    BY <2>2
  <2>5. Built(m, v)
    BY <2>3, <2>4
  <2> HIDE DEF Built
  <2> QED BY <1>0, <2>5
<1>4. PICK u : u = (CHOOSE w : Built(n, w)) /\ Built(n, u)
  <2> HIDE DEF S
  <2>1. n \in 0 .. n
    BY <1>0
  <2>2. n \in S
    BY <1>0, <1>2, <1>3, <2>1, Induction
  <2> HIDE DEF Built
  <2> QED BY <2>2 DEF S
<1>5. u[0] = groups /\ \A k \in 1 .. n : u[k] = AddHop(u[k - 1], listed[k].dst, listed[k].hop)
  <2>1. 0 \in 0 .. n /\ \A k \in 1 .. n : k \in 0 .. n /\ k # 0
    BY <1>0
  <2> QED BY <1>4, <2>1 DEF Step
<1> HIDE DEF Built, S
<1> DEFINE From(k, d, h) == \E j \in 1 .. k : listed[j].dst = d /\ listed[j].hop = h
           Good(k) == /\ WellGrouped(u[k])
                      /\ \A d, h : Holds(u[k], d, h) <=> (Holds(groups, d, h) \/ From(k, d, h))
           G == {k \in 0 .. n : Good(k)}
<1>6. 0 \in G
  BY <1>0, <1>5
<1>7. ASSUME NEW k \in 1 .. n, k - 1 \in G PROVE k \in G
  <2>1. PICK e, x : e = listed[k].dst /\ x = listed[k].hop
    OBVIOUS
  <2>2. Grown(u[k - 1], e, x, u[k])
    BY <1>5, <1>7, <2>1, AddHopIs
  <2>3. \A d, h : From(k, d, h) <=> (From(k - 1, d, h) \/ (d = e /\ h = x))
    <3>1. \A j \in 1 .. k : j = k \/ j \in 1 .. k - 1
      OBVIOUS
    <3>2. k \in 1 .. k /\ \A j \in 1 .. k - 1 : j \in 1 .. k
      OBVIOUS
    <3> QED BY <2>1, <3>1, <3>2
  <2> HIDE DEF From
  <2>4. Good(k)
    BY <1>7, <2>2, <2>3 DEF Grown
  <2>5. k \in 0 .. n
    OBVIOUS
  <2> QED BY <2>4, <2>5
<1> HIDE DEF G
<1>8. n \in G
  <2>1. n \in 0 .. n
    BY <1>0
  <2> QED BY <1>0, <1>6, <1>7, <2>1, Induction
<1> QED BY <1>0, <1>1, <1>4, <1>8 DEF G
----------------------------------------------------------------------------
\* The list of something for each interface.
LEMMA InterfacesAre ==
  ASSUME NEW n, WellShaped(n)
  PROVE  /\ Len(n.ifs) \in Nat /\ Interfaces(n) = DOMAIN n.ifs
         /\ Interfaces(n) = 1 .. Len(n.ifs) /\ IsFiniteSet(Interfaces(n))
<1>1. IsSequence(n.ifs)
  BY DEF WellShaped
<1>2. Len(n.ifs) \in Nat /\ DOMAIN n.ifs = 1 .. Len(n.ifs)
  BY <1>1, ListIs
<1> QED BY <1>2, FS_Interval DEF Interfaces

LEMMA RoutesAre ==
  ASSUME NEW n, WellShaped(n), NEW f \in Families
  PROVE  /\ IsSequence(Routes(n, f))
         /\ \A r : r \in ToSet(Routes(n, f)) <=>
                \E j \in Interfaces(n) : \E k \in 1 .. Len(n.ifs[j].routes[f]) :
                    r = [on |-> j, route |-> n.ifs[j].routes[f][k]]
<1> DEFINE List(j) == n.ifs[j].routes[f]
<1>1. PICK ss : ss = [j \in Interfaces(n) |->
                         [k \in 1 .. Len(List(j)) |-> [on |-> j, route |-> List(j)[k]]]]
  OBVIOUS
<1>2. Routes(n, f) = Concat(ss)
  BY <1>1 DEF Routes
<1>3. IsSequence(n.ifs) /\ DOMAIN n.ifs = Interfaces(n) /\ Interfaces(n) = 1 .. Len(n.ifs)
  BY InterfacesAre DEF WellShaped
<1>4. IsSequence(ss) /\ DOMAIN ss = Interfaces(n) /\ Len(ss) = Len(n.ifs)
  <2>1. ss = [j \in DOMAIN n.ifs |-> ss[j]] /\ DOMAIN ss = 1 .. Len(n.ifs)
    BY <1>1, <1>3
  <2>2. IsSequence(ss)
    BY <1>3, <2>1, EachIs
  <2>3. Len(ss) = Len(n.ifs)
    BY <1>3, <2>1, <2>2, InterfacesAre DEF IsSequence
  <2> QED BY <1>3, <2>1, <2>2, <2>3
<1>5. ASSUME NEW j \in Interfaces(n)
      PROVE  /\ IsSequence(ss[j])
             /\ \A r : r \in ToSet(ss[j]) <=>
                    \E k \in 1 .. Len(List(j)) : r = [on |-> j, route |-> List(j)[k]]
  <2>1. PICK s : s = List(j) /\ IsSequence(s)
    BY DEF WellShaped
  <2>2. PICK e : e = [k \in 1 .. Len(s) |-> [on |-> j, route |-> s[k]]]
    OBVIOUS
  <2>3. ss[j] = e
    BY <1>1, <2>1, <2>2
  <2>4. e = [k \in DOMAIN s |-> e[k]] /\ \A k \in 1 .. Len(s) : e[k] = [on |-> j, route |-> s[k]]
    BY <2>1, <2>2, ListIs
  <2>5. IsSequence(e) /\ \A r : r \in ToSet(e) <=> \E k \in 1 .. Len(s) : r = e[k]
    BY <2>1, <2>4, EachIs
  <2>6. ASSUME NEW r
        PROVE  r \in ToSet(e) <=> \E k \in 1 .. Len(s) : r = [on |-> j, route |-> s[k]]
    <3>1. r \in ToSet(e) <=> \E k \in 1 .. Len(s) : r = e[k]
      BY <2>5
    <3> QED BY ONLY <2>4, <3>1
  <2> HIDE DEF List
  <2> QED BY <2>1, <2>3, <2>5, <2>6
<1>6. /\ IsSequence(Concat(ss))
      /\ \A r : r \in ToSet(Concat(ss)) <=> \E j \in 1 .. Len(ss) : r \in ToSet(ss[j])
  BY <1>3, <1>4, <1>5, ConcatIs
<1> HIDE DEF List
<1>7. \A r : r \in ToSet(Routes(n, f)) <=>
          \E j \in Interfaces(n) : \E k \in 1 .. Len(List(j)) :
              r = [on |-> j, route |-> List(j)[k]]
  BY <1>2, <1>3, <1>4, <1>5, <1>6
<1> QED BY <1>2, <1>6, <1>7 DEF List

LEMMA RoutesListed ==
  ASSUME NEW n, WellShaped(n), NEW f \in Families, NEW r \in ToSet(Routes(n, f))
  PROVE  /\ r.on \in Interfaces(n) /\ r = [on |-> r.on, route |-> r.route]
         /\ r.route \in ToSet(n.ifs[r.on].routes[f]) /\ r.route.via \in Int
<1>0. PICK j \in Interfaces(n) : \E k \in 1 .. Len(n.ifs[j].routes[f]) :
          r = [on |-> j, route |-> n.ifs[j].routes[f][k]]
  BY RoutesAre
<1>1. PICK k \in 1 .. Len(n.ifs[j].routes[f]) :
          r = [on |-> j, route |-> n.ifs[j].routes[f][k]]
  BY <1>0
<1>2. r.on = j /\ r.route = n.ifs[j].routes[f][k]
  BY <1>1
<1>3. IsSequence(n.ifs[j].routes[f])
  BY DEF WellShaped
<1>4. n.ifs[j].routes[f][k] \in ToSet(n.ifs[j].routes[f])
  BY <1>3, ListIs
<1>5. n.ifs[j].routes[f][k].via \in Int
  BY <1>4 DEF WellShaped
<1> QED BY <1>1, <1>2, <1>4, <1>5

LEMMA ViaIs ==
  ASSUME NEW n, NEW i, NEW route, NEW f
  PROVE  EffectiveVia(n, i, route, f) \in {i, OnLink}
BY DEF EffectiveVia

LEMMA GroupedIs ==
  ASSUME NEW n, WellShaped(n), NEW f \in Families, NEW chosen
  PROVE  /\ WellGrouped(Grouped(n, f, chosen))
         /\ \A d, h : Holds(Grouped(n, f, chosen), d, h) <=>
                \E r \in ToSet(Routes(n, f)) :
                    /\ r \in chosen /\ r.route.dst = d
                    /\ EffectiveVia(n, r.on, r.route, f) # OnLink
                    /\ h = Hop(EffectiveVia(n, r.on, r.route, f), r.on)
<1> DEFINE via(r) == EffectiveVia(n, r.on, r.route, f)
           hop(r) == Hop(via(r), r.on)
           T == {r \in chosen : via(r) # OnLink}
<1>1. PICK s : s = Keep(Routes(n, f), T)
  OBVIOUS
<1>2. IsSequence(s) /\ ToSet(s) = ToSet(Routes(n, f)) \cap T
  BY <1>1, RoutesAre, KeepIs
<1>3. PICK e : e = [k \in 1 .. Len(s) |-> Listed(s[k].route.dst, hop(s[k]))]
  OBVIOUS
<1>4. Grouped(n, f, chosen) = AddAll(NoGroups, e)
  BY <1>1, <1>3 DEF Grouped
<1>5. e = [k \in DOMAIN s |-> e[k]] /\ DOMAIN s = 1 .. Len(s) /\ Len(s) \in Nat
  BY <1>2, <1>3, ListIs
<1>6. IsSequence(e) /\ Len(e) = Len(s)
  <2>1. IsSequence(e)
    BY <1>2, <1>5, EachIs
  <2> QED BY <1>5, <2>1 DEF IsSequence
<1>7. \A k \in 1 .. Len(s) : e[k].dst = s[k].route.dst /\ e[k].hop = hop(s[k])
  BY <1>3 DEF Listed
<1>8. /\ WellGrouped(AddAll(NoGroups, e))
      /\ \A d, h : Holds(AddAll(NoGroups, e), d, h) <=>
             \E k \in 1 .. Len(e) : e[k].dst = d /\ e[k].hop = h
  BY <1>6, NoGroupsIs, AddAllIs
<1> HIDE DEF hop
<1>9. \A d, h : (\E k \in 1 .. Len(e) : e[k].dst = d /\ e[k].hop = h) <=>
                (\E r \in ToSet(s) : r.route.dst = d /\ h = hop(r))
  <2>1. \A r : r \in ToSet(s) <=> \E k \in 1 .. Len(s) : s[k] = r
    BY <1>2, ListIs
  <2> QED BY <1>6, <1>7, <2>1
<1>11. \A r : r \in ToSet(s) <=>
               /\ r \in ToSet(Routes(n, f)) /\ r \in chosen /\ via(r) # OnLink
  BY <1>2
<1> HIDE DEF T, via
<1>10. \A d, h : Holds(Grouped(n, f, chosen), d, h) <=>
                 \E r \in ToSet(Routes(n, f)) :
                     /\ r \in chosen /\ r.route.dst = d
                     /\ via(r) # OnLink /\ h = hop(r)
  BY <1>4, <1>8, <1>9, <1>11
<1> QED BY <1>4, <1>8, <1>10 DEF hop, via
----------------------------------------------------------------------------
LEMMA FiniteSources ==
  ASSUME NEW n, WellShaped(n), NEW i \in Interfaces(n), NEW f \in Families, NEW reachable
  PROVE  /\ IsFiniteSet(SourcePrefixes(n, i, f, reachable))
         /\ reachable \in BOOLEAN =>
                SourcePrefixes(n, i, f, reachable) \subseteq SourcePrefixes(n, i, f, TRUE)
<1> DEFINE All == ToSet(n.ifs[i].routes[f])
           Some == {r.dst : r \in {q \in All : /\ q.dst # Default
                                               /\ (q.proto = "connected" \/ (reachable /\ q.behindAccess))}}
           Own == IF n.ifs[i].lan /\ HasSubnet(n, i, f) THEN {n.ifs[i].net[f]} ELSE {}
<1>1. SourcePrefixes(n, i, f, reachable) = Own \cup Some
  BY DEF SourcePrefixes
<1>2. IsFiniteSet(Some)
  <2>1. IsFiniteSet(All)
    BY FiniteList DEF WellShaped
  <2>2. PICK g : g = [r \in All |-> r.dst]
    OBVIOUS
  <2>3. \A y \in Some : \E x \in All : y = g[x]
    BY <2>2
  <2> HIDE DEF Some, All
  <2> QED BY <2>1, <2>3, FiniteImage
<1>3. IsFiniteSet(Own)
  BY FS_EmptySet, FS_Singleton
<1>4. reachable \in BOOLEAN =>
          SourcePrefixes(n, i, f, reachable) \subseteq SourcePrefixes(n, i, f, TRUE)
  BY DEF SourcePrefixes
<1> HIDE DEF Own, Some
<1> QED BY <1>1, <1>2, <1>3, <1>4, FS_Union

\* What a lane shares with: interfaces of the node.
LEMMA SharedIs ==
  ASSUME NEW n, WellShaped(n), NEW t
  PROVE  /\ IsSequence(SharedInterfaces(n, t))
         /\ ToSet(SharedInterfaces(n, t)) \subseteq Interfaces(n)
<1> DEFINE A == {i \in Interfaces(n) \ {t} :
                     /\ Lane(n, i).access = None
                     /\ SameUplink(Lane(n, i), Lane(n, t))}
           B == {r \in ToSet(n.forwarding) : r.accept /\ r.to = t /\ r.from # t}
<1>1. PICK all : all = [i \in Interfaces(n) |-> i]
  OBVIOUS
<1>2. IsSequence(all) /\ ToSet(all) \subseteq Interfaces(n)
  <2>1. IsSequence(n.ifs) /\ all = [i \in DOMAIN n.ifs |-> all[i]]
    BY <1>1, InterfacesAre DEF WellShaped
  <2>2. IsSequence(all) /\ \A x : x \in ToSet(all) <=> \E i \in 1 .. Len(n.ifs) : x = all[i]
    BY <2>1, EachIs
  <2>3. \A i \in 1 .. Len(n.ifs) : all[i] = i
    BY <1>1, InterfacesAre
  <2> QED BY <2>2, <2>3, InterfacesAre
<1>3. PICK up : up = Keep(all, A)
  OBVIOUS
<1>4. IsSequence(up) /\ ToSet(up) \subseteq Interfaces(n)
  BY <1>2, <1>3, KeepIs
<1>5. PICK acc : acc = Keep(n.forwarding, B)
  OBVIOUS
<1>6. IsSequence(acc) /\ ToSet(acc) \subseteq ToSet(n.forwarding)
  <2>1. IsSequence(n.forwarding)
    BY DEF WellShaped
  <2> QED BY <1>5, <2>1, KeepIs
<1>7. PICK fr : fr = [k \in 1 .. Len(acc) |-> acc[k].from]
  OBVIOUS
<1>8. IsSequence(fr) /\ ToSet(fr) \subseteq Interfaces(n)
  <2>1. fr = [k \in DOMAIN acc |-> fr[k]]
    BY <1>6, <1>7, ListIs
  <2>2. IsSequence(fr) /\ \A x : x \in ToSet(fr) <=> \E k \in 1 .. Len(acc) : x = fr[k]
    BY <1>6, <2>1, EachIs
  <2>3. \A k \in 1 .. Len(acc) : acc[k] \in ToSet(n.forwarding)
    BY <1>6, ListIs
  <2>4. \A r \in ToSet(n.forwarding) : r.from \in Interfaces(n)
    BY DEF WellShaped
  <2>5. \A k \in 1 .. Len(acc) : fr[k] \in Interfaces(n)
    BY <1>7, <2>3, <2>4
  <2> QED BY <2>2, <2>5
<1>9. IsSequence(up \o fr) /\ ToSet(up \o fr) \subseteq Interfaces(n)
  BY <1>4, <1>8, JoinIs
<1>10. SharedInterfaces(n, t) = Unrepeated(up \o fr)
  BY <1>1, <1>3, <1>5, <1>7 DEF SharedInterfaces
<1> QED BY <1>9, <1>10, UnrepeatedIs
----------------------------------------------------------------------------
LEMMA SurfaceIs ==
  ASSUME NEW n, WellShaped(n), NEW j \in Interfaces(n), NEW lane, NEW route,
         route.via \in Int, NEW f
  PROVE  Surface(n, j, lane, route, f) \in Nat
<1> DEFINE link == IF route.via < 0 THEN -route.via ELSE route.via
           same == {i \in Interfaces(n) : /\ Lane(n, i).access = lane.access
                                          /\ Lane(n, i).uplink = lane.uplink}
           far == route.via # OnLink /\ HasSubnet(n, link, f)
           near == IF /\ lane.access # None /\ lane.uplink # None /\ same # {}
                   THEN CHOOSE i \in same : \A k \in same : i <= k
                   ELSE j
<1>1. link \in Nat
  OBVIOUS
<1>2. Interfaces(n) \subseteq Nat
  BY InterfacesAre
<1>3. same # {} => (CHOOSE i \in same : \A k \in same : i <= k) \in Nat
  <2>1. same \subseteq Nat
    BY <1>2
  <2> HIDE DEF same
  <2>2. same # {} => \E i \in same : \A k \in same : i <= k
    BY <2>1, Least
  <2> QED BY <2>1, <2>2
<1>4. near \in Nat
  BY <1>2, <1>3
<1>5. Surface(n, j, lane, route, f) = CASE far -> link [] ~far -> near
  BY DEF Surface
<1> HIDE DEF link, near, far
<1>6. Surface(n, j, lane, route, f) = link \/ Surface(n, j, lane, route, f) = near
  BY <1>5
<1> QED BY <1>1, <1>4, <1>6

\* What is known of a lane while its routes are collected.
LaneAcc(acc) ==
    /\ acc = [preferred |-> acc.preferred, groups |-> acc.groups]
    /\ WellGrouped(acc.groups)

\* A route that a lane carries leaves by a gateway that can be printed.
Explains(n, t, f, r, d, h) ==
    /\ Eligible(n, t, r) /\ r.route.dst = d
    /\ h.dev = Out(n, t, r, f) /\ h.via # Garbled

LaneStep(n, t, f, acc, r, more) ==
    /\ LaneAcc(more)
    /\ acc.preferred \subseteq more.preferred
    /\ acc.preferred \cap DOMAIN acc.groups \subseteq DOMAIN more.groups
    /\ \A d, h : Holds(more.groups, d, h)
                 => Holds(acc.groups, d, h) \/ Explains(n, t, f, r, d, h)
    /\ (Takes(n, t, r, f) /\ r.on = t /\ r.route.dst # Default)
       => r.route.dst \in more.preferred \cap DOMAIN more.groups

LEMMA AddLaneRouteIs ==
  ASSUME NEW n, WellShaped(n), NEW t \in Interfaces(n), NEW f \in Families,
         NEW r \in ToSet(Routes(n, f)), NEW acc, LaneAcc(acc)
  PROVE  LaneStep(n, t, f, acc, r, AddLaneRoute(n, t, f, acc, r))
<1>1. PICK d : d = r.route.dst
  OBVIOUS
<1>2. PICK g, P : g = acc.groups /\ P = acc.preferred /\ acc = [preferred |-> P, groups |-> g]
  BY DEF LaneAcc
<1>3. WellGrouped(g)
  BY <1>2 DEF LaneAcc
<1> DEFINE connected == ~r.route.policyOnly /\ r.route.proto = "connected"
           far == Surface(n, r.on, RouteLane(n, r.on, r.route), r.route, f)
<1>4. PICK s : s = IF OwnDefault(t, r) THEN t ELSE far
  OBVIOUS
<1>5. s \in Nat
  <2>1. t \in Nat /\ r.on \in Interfaces(n) /\ r.route.via \in Int
    BY InterfacesAre, RoutesListed
  <2> QED BY <1>4, <2>1, SurfaceIs
<1>6. Eligible(n, t, r) /\ ~connected => s = Out(n, t, r, f)
  BY <1>4 DEF Eligible, OwnDefault, Out
<1>7. Eligible(n, t, r) /\ connected => t = Out(n, t, r, f)
  BY DEF Out
<1>8. PICK prefers \in BOOLEAN : prefers <=> (r.on = t /\ d # Default /\ d \notin P)
  OBVIOUS
<1>9. PICK before : before = IF prefers THEN Without(g, d) ELSE g
  OBVIOUS
<1>10. /\ WellGrouped(before) /\ \A e, x : Holds(before, e, x) => Holds(g, e, x)
       /\ P \cap DOMAIN g \subseteq DOMAIN before
  <2>1. CASE prefers
    <3>1. before = Without(g, d) /\ d \notin P
      BY <1>8, <1>9, <2>1
    <3>2. /\ WellGrouped(Without(g, d))
          /\ \A e, x : Holds(Without(g, d), e, x) => Holds(g, e, x)
      BY <1>3, WithoutIs
    <3>3. P \cap DOMAIN g \subseteq DOMAIN Without(g, d)
      BY <1>3, <3>1, WithoutIs
    <3> QED BY <3>1, <3>2, <3>3
  <2>2. CASE ~prefers
    BY <1>3, <1>9, <2>2
  <2> QED BY <2>1, <2>2
<1>11. PICK skip \in BOOLEAN : skip <=>
          \/ ~OwnDefault(t, r) /\ r.route.canonical /\ d \in OtherLaneAddresses(n, t)
          \/ r.on # t /\ r.route.canonical /\ d \in P
  OBVIOUS
<1>12. PICK v : v = EffectiveVia(n, s, r.route, f)
  OBVIOUS
<1>13. PICK more : more = AddLaneRoute(n, t, f, acc, r)
  OBVIOUS
<1>14. CASE ~Eligible(n, t, r)
  <2>1. more = acc
    BY <1>13, <1>14 DEF AddLaneRoute
  <2>2. ~Takes(n, t, r, f)
    BY <1>14 DEF Takes
  <2> QED BY <1>13, <2>1, <2>2 DEF LaneStep
<1>15. CASE Eligible(n, t, r) /\ connected
  <2>1. PICK a : a = AddHop(g, d, Hop(OnLink, t))
    OBVIOUS
  <2>2. more = [acc EXCEPT !.groups = AddHop(@, d, Hop(OnLink, t))]
    BY <1>1, <1>13, <1>15 DEF AddLaneRoute
  <2>3. more = [preferred |-> P, groups |-> a]
    BY <1>2, <2>1, <2>2
  <2>4. Grown(g, d, Hop(OnLink, t), a)
    BY <1>3, <2>1, AddHopIs
  <2>5. more.preferred = P /\ more.groups = a
    BY <2>3
  <2>6. Explains(n, t, f, r, d, Hop(OnLink, t))
    BY <1>1, <1>7, <1>15 DEF Explains, Hop, OnLink, Garbled
  <2>7. ~Takes(n, t, r, f)
    BY <1>15 DEF Takes
  <2>8. LaneAcc(more)
    BY <2>3, <2>4, <2>5 DEF LaneAcc, Grown
  <2>9. \A e, x : Holds(a, e, x) => Holds(g, e, x) \/ Explains(n, t, f, r, e, x)
    BY <2>4, <2>6 DEF Grown
  <2>10. P \cap DOMAIN g \subseteq DOMAIN a
    BY <2>4 DEF Grown
  <2> QED BY <1>2, <1>13, <2>5, <2>7, <2>8, <2>9, <2>10 DEF LaneStep
<1>16. CASE Eligible(n, t, r) /\ ~connected /\ skip
  <2>1. more = acc
    BY <1>1, <1>2, <1>11, <1>13, <1>16 DEF AddLaneRoute
  <2>2. ~(Takes(n, t, r, f) /\ r.on = t /\ d # Default)
    BY <1>1, <1>11, <1>16 DEF Takes
  <2> QED BY <1>1, <1>13, <2>1, <2>2 DEF LaneStep
<1>17. CASE Eligible(n, t, r) /\ ~connected /\ ~skip
  <2>1. PICK a, Q : /\ a = AddGateway(before, d, v, s)
                    /\ Q = P \cup (IF prefers THEN {d} ELSE {})
    OBVIOUS
  <2>2. more = [preferred |-> Q, groups |-> a]
    BY <1>1, <1>2, <1>4, <1>8, <1>9, <1>11, <1>12, <1>13, <1>17, <2>1 DEF AddLaneRoute
  <2>3. more.preferred = Q /\ more.groups = a
    BY <2>2
  <2>4. s = Out(n, t, r, f)
    BY <1>6, <1>17
  <2>5. CASE v = OnLink
    <3>1. a = before
      BY <2>1, <2>5 DEF AddGateway
    <3>2. ~Takes(n, t, r, f)
      BY <1>12, <2>4, <2>5 DEF Takes
    <3>3. LaneAcc(more)
      BY <1>10, <2>2, <2>3, <3>1 DEF LaneAcc
    <3> QED BY <1>2, <1>10, <1>13, <2>1, <2>3, <3>1, <3>2, <3>3 DEF LaneStep
  <2>6. CASE v # OnLink
    <3>1. a = AddHop(before, d, Hop(v, s))
      BY <2>1, <2>6 DEF AddGateway
    <3>2. Grown(before, d, Hop(v, s), a)
      BY <1>10, <3>1, AddHopIs
    <3>3. v = s
      BY <1>12, <2>6, ViaIs
    <3>4. Explains(n, t, f, r, d, Hop(v, s))
      BY <1>1, <1>5, <1>17, <2>4, <3>3 DEF Explains, Hop, Garbled
    <3>5. LaneAcc(more)
      BY <2>2, <2>3, <3>2 DEF LaneAcc, Grown
    <3>6. \A e, x : Holds(a, e, x) => Holds(g, e, x) \/ Explains(n, t, f, r, e, x)
      BY <1>10, <3>2, <3>4 DEF Grown
    <3>7. d \in DOMAIN a /\ P \cap DOMAIN g \subseteq DOMAIN a
      BY <1>10, <3>2 DEF Grown
    <3>8. r.on = t /\ d # Default => d \in Q
      BY <1>8, <2>1
    <3> QED BY <1>1, <1>2, <1>13, <2>1, <2>3, <3>5, <3>6, <3>7, <3>8 DEF LaneStep
  <2> QED BY <2>5, <2>6
<1> QED BY <1>14, <1>15, <1>16, <1>17

\* The groups of a lane: each hop comes from a route it may carry, and what its
\* own interface lists with a gateway is there.
LEMMA LaneGroupsAre ==
  ASSUME NEW n, WellShaped(n), NEW t \in Interfaces(n), NEW f \in Families
  PROVE  /\ WellGrouped(LaneGroups(n, t, f))
         /\ \A d, h : Holds(LaneGroups(n, t, f), d, h)
                      => \E r \in ToSet(Routes(n, f)) : Explains(n, t, f, r, d, h)
         /\ \A r \in ToSet(Routes(n, f)) :
                (Takes(n, t, r, f) /\ r.on = t /\ r.route.dst # Default)
                => r.route.dst \in DOMAIN LaneGroups(n, t, f)
<1>0. PICK R : R = Routes(n, f) /\ IsSequence(R)
  BY RoutesAre
<1>1. PICK m \in Nat : m = Len(R)
  BY <1>0, ListIs
<1>2. PICK none : none = [preferred |-> {}, groups |-> NoGroups]
  OBVIOUS
<1> DEFINE Step(k, acc) == AddLaneRoute(n, t, f, acc, R[k])
           Built(k, u) == u = [i \in 0 .. k |-> IF i = 0 THEN none ELSE Step(i, u[i - 1])]
           S == {k \in 0 .. m : \E u : Built(k, u)}
<1>3. LaneGroups(n, t, f) = (CHOOSE u : Built(m, u))[m].groups
  BY <1>0, <1>1, <1>2 DEF LaneGroups
<1> HIDE DEF Step
<1>4. 0 \in S
  <2>1. Built(0, [k \in 0 .. 0 |-> none])
    OBVIOUS
  <2>2. 0 \in 0 .. m
    BY <1>1
  <2> HIDE DEF Built
  <2> QED BY <2>1, <2>2
<1>5. ASSUME NEW k \in 1 .. m, k - 1 \in S PROVE k \in S
  <2>1. PICK u : Built(k - 1, u)
    BY <1>5
  <2>2. PICK v : v = [i \in 0 .. k |-> IF i = k THEN Step(k, u[k - 1]) ELSE u[i]]
    OBVIOUS
  <2>3. ASSUME NEW i \in 0 .. k PROVE v[i] = IF i = 0 THEN none ELSE Step(i, v[i - 1])
    <3>1. CASE i = k
      <4>1. k - 1 \in 0 .. k /\ k - 1 # k /\ k # 0
        OBVIOUS
      <4>2. v[k] = Step(k, u[k - 1]) /\ v[k - 1] = u[k - 1]
        BY <2>2, <4>1
      <4> QED BY <3>1, <4>1, <4>2
    <3>2. CASE i # k
      <4>1. i \in 0 .. k - 1 /\ v[i] = u[i]
        BY <2>2, <3>2
      <4>2. u[i] = IF i = 0 THEN none ELSE Step(i, u[i - 1])
        BY <2>1, <4>1
      <4>3. i # 0 => i - 1 \in 0 .. k /\ i - 1 # k
        BY <4>1
      <4>4. i # 0 => v[i - 1] = u[i - 1]
        BY <2>2, <4>3
      <4> QED BY <4>1, <4>2, <4>4
    <3> QED BY <3>1, <3>2
  <2>4. v = [i \in 0 .. k |-> v[i]]
    BY <2>2
  <2>5. Built(k, v)
    BY <2>3, <2>4
  <2> HIDE DEF Built
  <2> QED BY <1>1, <2>5
<1>6. PICK u : u = (CHOOSE w : Built(m, w)) /\ Built(m, u)
  <2> HIDE DEF S
  <2>1. m \in 0 .. m
    BY <1>1
  <2>2. m \in S
    BY <1>1, <1>4, <1>5, <2>1, Induction
  <2> HIDE DEF Built
  <2> QED BY <2>2 DEF S
<1>7. u[0] = none /\ \A k \in 1 .. m : u[k] = AddLaneRoute(n, t, f, u[k - 1], R[k])
  <2>1. 0 \in 0 .. m /\ \A k \in 1 .. m : k \in 0 .. m /\ k # 0
    BY <1>1
  <2> QED BY <1>6, <2>1 DEF Step
<1> HIDE DEF Built, S
<1> DEFINE Own(k) == Takes(n, t, R[k], f) /\ R[k].on = t /\ R[k].route.dst # Default
           Good(k) == /\ LaneAcc(u[k])
                      /\ \A d, h : Holds(u[k].groups, d, h)
                                   => \E r \in ToSet(R) : Explains(n, t, f, r, d, h)
                      /\ \A i \in 1 .. k :
                             Own(i) => R[i].route.dst \in u[k].preferred \cap DOMAIN u[k].groups
           G == {k \in 0 .. m : Good(k)}
<1>8. 0 \in G
  <2>1. u[0].groups = NoGroups /\ u[0] = [preferred |-> u[0].preferred, groups |-> u[0].groups]
    BY <1>2, <1>7
  <2>2. LaneAcc(u[0])
    BY <2>1, NoGroupsIs DEF LaneAcc
  <2>3. Good(0)
    BY <2>1, <2>2, NoGroupsIs
  <2>4. 0 \in 0 .. m
    BY <1>1
  <2> HIDE DEF Good
  <2> QED BY <2>3, <2>4
<1>9. ASSUME NEW k \in 1 .. m, k - 1 \in G PROVE k \in G
  <2>1. Good(k - 1)
    BY <1>9
  <2>2. R[k] \in ToSet(R)
    BY <1>0, <1>1, ListIs
  <2>3. LaneStep(n, t, f, u[k - 1], R[k], u[k])
    BY <1>0, <1>7, <2>1, <2>2, AddLaneRouteIs
  <2>4. LaneAcc(u[k])
    BY <2>3 DEF LaneStep
  <2>5. \A d, h : Holds(u[k].groups, d, h) => \E r \in ToSet(R) : Explains(n, t, f, r, d, h)
    BY <2>1, <2>2, <2>3 DEF LaneStep
  <2>6. ASSUME NEW i \in 1 .. k, Own(i)
        PROVE  R[i].route.dst \in u[k].preferred \cap DOMAIN u[k].groups
    <3>1. CASE i = k
      BY <2>3, <2>6, <3>1 DEF LaneStep
    <3>2. CASE i # k
      <4>1. i \in 1 .. k - 1
        BY <3>2
      <4>2. R[i].route.dst \in u[k - 1].preferred \cap DOMAIN u[k - 1].groups
        BY <2>1, <2>6, <4>1
      <4> QED BY <2>3, <4>2 DEF LaneStep
    <3> QED BY <3>1, <3>2
  <2>7. Good(k)
    BY <2>4, <2>5, <2>6
  <2>8. k \in 0 .. m
    OBVIOUS
  <2> HIDE DEF Good
  <2> QED BY <2>7, <2>8
<1> HIDE DEF G
<1>10. m \in G
  <2>1. m \in 0 .. m
    BY <1>1
  <2> QED BY <1>1, <1>8, <1>9, <2>1, Induction
<1>11. Good(m)
  BY <1>10 DEF G
<1>12. LaneGroups(n, t, f) = u[m].groups
  BY <1>3, <1>6
<1>13. ASSUME NEW r \in ToSet(R), Takes(n, t, r, f), r.on = t, r.route.dst # Default
       PROVE  r.route.dst \in DOMAIN u[m].groups
  <2>1. PICK i \in 1 .. m : R[i] = r
    BY <1>0, <1>1, ListIs
  <2> QED BY <1>11, <1>13, <2>1
<1>14. WellGrouped(u[m].groups)
  BY <1>11 DEF LaneAcc
<1> HIDE DEF Own
<1> QED BY <1>0, <1>11, <1>12, <1>13, <1>14
----------------------------------------------------------------------------
(***************************************************************************)
(* The rules and routes a node may ask for, and that no phase asks for     *)
(* others.                                                                 *)
(***************************************************************************)

LaneSet(n) == {LaneData(n, i) : i \in LaneLinks(n)}

Parsed(c) == \A h \in c.hops : h.via # Garbled

(* The rules a node may ask for. *)
Selecting(n, c) ==
    \E s \in ToSet(n.selectors) :
        c = Rule(s.fam, s.src, s.dst, s.incoming, s.priority, s.table, FALSE)

\* What comes in on an interface that a lane serves.
BySource(n, lane, c) ==
    /\ lane.groups[c.fam] # NoGroups
    /\ c.iif \in Interfaces(n)
    /\ \/ /\ c.iif # lane.on /\ Contains(lane.shared, c.iif)
          /\ c.from \in SourcePrefixes(n, c.iif, c.fam, TRUE)
       \/ c.iif = lane.on /\ SourcePrefixes(n, c.iif, c.fam, FALSE) # {}
       \/ c.iif = lane.on /\ c.table = lane.table
    /\ \/ c.table = lane.table
       \/ c.suppress = TRUE /\ lane.suppress # 0 /\ c.priority = lane.suppress

FromResolver(n, lane, c) ==
    \E b \in ToSet(n.resolverSources) :
        /\ HasSubnet(n, b, c.fam) /\ Serves(lane, b) /\ HasDefault(lane, c.fam)
        /\ c = Rule(c.fam, n.ifs[b].self[c.fam], Default, AnyDevice,
                    lane.priority, lane.table, FALSE)

Claiming(n, lane, c) ==
    /\ c = Rule(c.fam, Default, c.to, c.iif, c.priority, lane.table, FALSE)
    /\ c.to \in DOMAIN lane.groups[c.fam] \ {Default}
    /\ c.iif \in Interfaces(n)
    /\ \/ Contains(lane.shared, c.iif)
       \/ Lane(n, lane.on).access # None /\ Lane(n, c.iif).access = Lane(n, lane.on).access

Denying(lane, c) == c = UnscopedRule(lane, c.fam)

\* A rule has a number of a lane that serves the interface it is about.
Numbered(lane, c) ==
    /\ Serves(lane, c.iif) \/ c.iif = AnyDevice
    /\ \/ c.priority = lane.priority
       \/ lane.suppress # 0 /\ c.priority = lane.suppress

RuleOf(n, c) ==
    \/ Selecting(n, c)
    \/ /\ \E lane \in LaneSet(n) : Numbered(lane, c)
       /\ \E lane \in LaneSet(n) :
              BySource(n, lane, c) \/ FromResolver(n, lane, c) \/ Claiming(n, lane, c)
              \/ Denying(lane, c)

(* The routes a node may ask for. *)
Carrying(lane, c) ==
    /\ c.dst \in DOMAIN lane.groups[c.fam]
    /\ c.hops = ToSet(lane.groups[c.fam][c.dst])

Attaching(n, lane, c) ==
    /\ HasDefault(lane, c.fam)
    /\ \E b \in ToSet(n.resolverSources) :
           HasSubnet(n, b, c.fam) /\ c.dst = n.ifs[b].net[c.fam] /\ c.hops = {Hop(OnLink, b)}

Copying(n, lane, c) ==
    /\ ~Denied(lane) /\ Lane(n, lane.on).access # None
    /\ \E ds \in LaneSet(n) :
           /\ Lane(n, ds.on).access = Lane(n, lane.on).access
           /\ \/ /\ c.dst # Default
                 /\ \E h : /\ c.hops = {Printed(h)}
                           /\ \/ Holds(ds.groups[c.fam], c.dst, h)
                              \/ Lists(n, ds.on, c.fam, c.dst) /\ h.dev = ds.on
              \/ /\ HasSubnet(n, ds.on, c.fam) /\ c.dst = n.ifs[ds.on].net[c.fam]
                 /\ c.hops = {Hop(ds.on, ds.on)}

Blocking(lane, c) ==
    lane.groups[c.fam] = NoGroups /\ c.dst = Default /\ c.hops = Blackhole

RouteOf(n, c) ==
    \/ c.table = Main
    \/ \E lane \in LaneSet(n) :
           /\ c.table = lane.table
           /\ Carrying(lane, c) \/ Attaching(n, lane, c) \/ Copying(n, lane, c)
              \/ Blocking(lane, c)

CommandOf(n, c) ==
    /\ c.fam \in Families
    /\ (c.op = "rule" /\ RuleOf(n, c)) \/ (c.op = "route" /\ RouteOf(n, c))

Listing(n, s) == IsSequence(s) /\ \A c \in ToSet(s) : CommandOf(n, c)
----------------------------------------------------------------------------
LEMMA ListingJoin ==
  ASSUME NEW n, NEW s, NEW t, Listing(n, s), Listing(n, t)
  PROVE  Listing(n, s \o t) /\ ToSet(s \o t) = ToSet(s) \cup ToSet(t)
BY JoinIs DEF Listing

LEMMA ListingJoined ==
  ASSUME NEW n, NEW s, NEW t, Listing(n, s), Listing(n, t), NEW u, Joined(s, t, u)
  PROVE  Listing(n, u) /\ ToSet(u) = ToSet(s) \cup ToSet(t)
<1>1. u = s \o t
  BY DEF Joined
<1>2. IsSequence(s) /\ IsSequence(t)
  BY DEF Listing
<1>3. IsSequence(s \o t) /\ ToSet(s \o t) = ToSet(s) \cup ToSet(t)
  BY <1>2, JoinIs
<1> QED BY <1>1, <1>3 DEF Listing

LEMMA ListingNone == ASSUME NEW n PROVE Listing(n, <<>>)
BY Spelled DEF Listing

LEMMA LaneFacts ==
  ASSUME NEW n, WellShaped(n), NEW lane \in LaneSet(n)
  PROVE  /\ lane.on \in LaneLinks(n) /\ lane = LaneData(n, lane.on)
         /\ lane.on \in Interfaces(n) /\ lane.on \in Nat
         /\ lane.table = Alloc(n, lane.on).table
         /\ lane.priority = Alloc(n, lane.on).priority /\ lane.priority \in Nat
         /\ lane.suppress = Alloc(n, lane.on).suppress /\ lane.suppress \in Nat
         /\ lane.shared = SharedInterfaces(n, lane.on)
         /\ \A f \in Families : lane.groups[f] = LaneGroups(n, lane.on, f)
<1>1. PICK t \in LaneLinks(n) : lane = LaneData(n, t)
  BY DEF LaneSet
<1>2. /\ lane.on = t /\ lane.table = Alloc(n, t).table
      /\ lane.priority = Alloc(n, t).priority /\ lane.suppress = Alloc(n, t).suppress
      /\ lane.shared = SharedInterfaces(n, t)
      /\ \A f \in Families : lane.groups[f] = LaneGroups(n, t, f)
  BY <1>1 DEF LaneData, Alloc
<1>3. t \in Interfaces(n) /\ n.ifs[t].alloc # <<>>
  BY DEF LaneLinks, Allocated
<1>4. Alloc(n, t).priority \in Nat /\ Alloc(n, t).suppress \in Nat
  BY <1>3 DEF WellShaped, Alloc
<1>5. t \in Nat
  BY <1>3, InterfacesAre
<1> QED BY <1>1, <1>2, <1>3, <1>4, <1>5

LEMMA LaneRoutes ==
  ASSUME NEW n, WellShaped(n), NEW lane \in LaneSet(n), NEW f \in Families
  PROVE  /\ WellGrouped(lane.groups[f])
         /\ \A d, h : Holds(lane.groups[f], d, h)
                      => \E r \in ToSet(Routes(n, f)) : Explains(n, lane.on, f, r, d, h)
         /\ \A r \in ToSet(Routes(n, f)) :
                (Takes(n, lane.on, r, f) /\ r.on = lane.on /\ r.route.dst # Default)
                => r.route.dst \in DOMAIN lane.groups[f]
<1>1. lane.on \in Interfaces(n) /\ lane.groups[f] = LaneGroups(n, lane.on, f)
  BY LaneFacts
<1> QED BY <1>1, LaneGroupsAre

\* The interfaces a lane serves.
LEMMA SourcesAre ==
  ASSUME NEW n, WellShaped(n), NEW lane \in LaneSet(n)
  PROVE  /\ IsSequence(lane.shared) /\ ToSet(lane.shared) \subseteq Interfaces(n)
         /\ \A i : i \in ToSet(lane.shared) <=> Contains(lane.shared, i)
         /\ IsSequence(<<lane.on>> \o lane.shared)
         /\ ToSet(<<lane.on>> \o lane.shared) \subseteq Interfaces(n)
         /\ \A i : i \in ToSet(<<lane.on>> \o lane.shared) <=> Serves(lane, i)
<1>1. IsSequence(lane.shared) /\ ToSet(lane.shared) \subseteq Interfaces(n)
  BY LaneFacts, SharedIs
<1>2. \A i : i \in ToSet(lane.shared) <=> Contains(lane.shared, i)
  BY <1>1, ListIs DEF Contains
<1>3. IsSequence(<<lane.on>>) /\ ToSet(<<lane.on>>) = {lane.on}
  BY Spelled
<1>4. /\ IsSequence(<<lane.on>> \o lane.shared)
      /\ ToSet(<<lane.on>> \o lane.shared) = {lane.on} \cup ToSet(lane.shared)
  BY <1>1, <1>3, JoinIs
<1>5. lane.on \in Interfaces(n)
  BY LaneFacts
<1> QED BY <1>1, <1>2, <1>4, <1>5 DEF Serves

LEMMA TableRoutesAre ==
  ASSUME NEW n, WellShaped(n), NEW lane \in LaneSet(n), NEW f \in Families
  PROVE  /\ Listing(n, TableRoutes(lane, f))
         /\ \A d \in DOMAIN lane.groups[f] :
                Route(f, lane.table, d, ToSet(lane.groups[f][d])) \in ToSet(TableRoutes(lane, f))
<1>1. PICK g : g = lane.groups[f] /\ WellGrouped(g)
  BY LaneRoutes
<1>2. PICK s : s = InSomeOrder(DOMAIN g)
  OBVIOUS
<1>3. IsSequence(s) /\ ToSet(s) = DOMAIN g
  BY <1>1, <1>2, InSomeOrderIs DEF WellGrouped
<1>4. PICK e : e = [k \in 1 .. Len(s) |-> Route(f, lane.table, s[k], ToSet(g[s[k]]))]
  OBVIOUS
<1>5. TableRoutes(lane, f) = e
  BY <1>1, <1>2, <1>4 DEF TableRoutes
<1>6. e = [k \in DOMAIN s |-> e[k]] /\ \A k \in 1 .. Len(s) : e[k] = Route(f, lane.table, s[k], ToSet(g[s[k]]))
  BY <1>3, <1>4, ListIs
<1>7. IsSequence(e) /\ \A c : c \in ToSet(e) <=> \E k \in 1 .. Len(s) : c = e[k]
  BY <1>3, <1>6, EachIs
<1>8. \A d : d \in DOMAIN g <=> \E k \in 1 .. Len(s) : s[k] = d
  BY <1>3, ListIs
<1>9. ASSUME NEW c \in ToSet(e) PROVE CommandOf(n, c)
  <2>1. PICK k \in 1 .. Len(s) : c = Route(f, lane.table, s[k], ToSet(g[s[k]]))
    BY <1>6, <1>7
  <2>2. /\ c.op = "route" /\ c.fam = f /\ c.table = lane.table
        /\ c.dst = s[k] /\ c.hops = ToSet(g[s[k]])
    BY <2>1 DEF Route
  <2>3. Carrying(lane, c)
    BY <1>1, <1>8, <2>2 DEF Carrying
  <2> QED BY <2>2, <2>3 DEF CommandOf, RouteOf
<1>10. \A d \in DOMAIN g : Route(f, lane.table, d, ToSet(g[d])) \in ToSet(e)
  BY <1>6, <1>7, <1>8
<1> QED BY <1>1, <1>5, <1>7, <1>9, <1>10 DEF Listing
----------------------------------------------------------------------------
LEMMA OneOrTwo ==
  ASSUME NEW a, NEW b, NEW own
  PROVE  /\ IsSequence(<<a>> \o IF own THEN <<b>> ELSE <<>>)
         /\ \A c \in ToSet(<<a>> \o IF own THEN <<b>> ELSE <<>>) : c = a \/ (own /\ c = b)
<1>1. /\ IsSequence(<<a>>) /\ ToSet(<<a>>) = {a}
      /\ IsSequence(<<b>>) /\ ToSet(<<b>>) = {b}
      /\ IsSequence(<<>>) /\ ToSet(<<>>) = {}
  BY Spelled
<1>2. PICK t : t = IF own THEN <<b>> ELSE <<>>
  OBVIOUS
<1>3. IsSequence(t) /\ \A c \in ToSet(t) : own /\ c = b
  BY <1>1, <1>2
<1>4. IsSequence(<<a>> \o t) /\ ToSet(<<a>> \o t) = {a} \cup ToSet(t)
  BY <1>1, <1>3, JoinIs
<1>5. IsSequence(<<a>> \o t) /\ \A c \in ToSet(<<a>> \o t) : c = a \/ (own /\ c = b)
  BY <1>1, <1>3, <1>4
<1> QED BY <1>2, <1>5

LEMMA SourceRulesAre ==
  ASSUME NEW n, WellShaped(n), NEW lane \in LaneSet(n), NEW f \in Families,
         NEW i, Serves(lane, i), lane.groups[f] # NoGroups
  PROVE  Listing(n, SourceRules(n, lane, f, i))
<1>0. i \in Interfaces(n)
  BY SourcesAre
<1>1. PICK own \in BOOLEAN : own <=> i = lane.on
  OBVIOUS
<1>2. PICK P : P = SourcePrefixes(n, i, f, ~own)
  OBVIOUS
<1>3. PICK s : s = InSomeOrder(P)
  OBVIOUS
<1>4. IsSequence(s) /\ ToSet(s) = P
  BY <1>0, <1>2, <1>3, FiniteSources, InSomeOrderIs
<1> DEFINE rule(from, to, priority, table, suppress) ==
               Rule(f, from, to, i, priority, table, suppress)
           pair(p, priority, table, suppress) ==
               <<rule(p, Default, priority, table, suppress)>>
               \o IF own THEN <<rule(Default, p, priority, table, suppress)>> ELSE <<>>
           rules(p) ==
               pair(p, lane.priority, lane.table, FALSE)
               \o IF lane.suppress = 0 THEN <<>> ELSE pair(p, lane.suppress, Main, TRUE)
<1>5. SourceRules(n, lane, f, i) =
          IF s # <<>> THEN Concat([k \in 1 .. Len(s) |-> rules(s[k])])
          ELSE IF own THEN <<rule(Default, Default, lane.priority, lane.table, FALSE)>>
          ELSE <<>>
  BY <1>1, <1>2, <1>3 DEF SourceRules
<1>6. ASSUME NEW p \in P, NEW priority, NEW table, NEW suppress,
             \/ priority = lane.priority /\ table = lane.table
             \/ lane.suppress # 0 /\ priority = lane.suppress /\ suppress = TRUE
      PROVE  Listing(n, pair(p, priority, table, suppress))
  <2>1. PICK a, b : /\ a = rule(p, Default, priority, table, suppress)
                    /\ b = rule(Default, p, priority, table, suppress)
    OBVIOUS
  <2>2. PICK q : q = pair(p, priority, table, suppress)
    OBVIOUS
  <2>5. q = <<a>> \o IF own THEN <<b>> ELSE <<>>
    BY <2>1, <2>2
  <2>3. IsSequence(q) /\ \A c \in ToSet(q) : c = a \/ (own /\ c = b)
    BY ONLY <2>5, OneOrTwo
  <2>4. ASSUME NEW c, c = a \/ (own /\ c = b) PROVE CommandOf(n, c)
    <3>1. /\ c.op = "rule" /\ c.fam = f /\ c.iif = i /\ c.priority = priority
          /\ c.table = table /\ c.suppress = suppress
          /\ ~own => c.from = p
      BY <2>1, <2>4 DEF Rule
    <3>2. Numbered(lane, c)
      BY <1>1, <1>6, <3>1 DEF Numbered
    <3>3. own => SourcePrefixes(n, i, f, FALSE) # {}
      BY <1>2
    <3>4. ~own => p \in SourcePrefixes(n, i, f, TRUE)
      BY <1>2
    <3>5. ~own => Contains(lane.shared, i)
      BY <1>1 DEF Serves
    <3>6. BySource(n, lane, c)
      BY <1>0, <1>1, <1>6, <3>1, <3>3, <3>4, <3>5 DEF BySource
    <3> QED BY <3>1, <3>2, <3>6 DEF CommandOf, RuleOf
  <2> QED BY <2>2, <2>3, <2>4 DEF Listing
<1>7. ASSUME NEW p \in P PROVE Listing(n, rules(p))
  <2>1. PICK a : a = pair(p, lane.priority, lane.table, FALSE) /\ Listing(n, a)
    BY <1>6, <1>7
  <2>2. PICK b : b = pair(p, lane.suppress, Main, TRUE) /\ (lane.suppress # 0 => Listing(n, b))
    BY <1>6, <1>7
  <2>3. PICK t : t = IF lane.suppress = 0 THEN <<>> ELSE b
    OBVIOUS
  <2>4. Listing(n, t)
    BY <2>2, <2>3, ListingNone
  <2>5. Listing(n, a \o t)
    BY <2>1, <2>4, ListingJoin
  <2>6. rules(p) = a \o t
    BY <2>1, <2>2, <2>3
  <2> QED BY <2>5, <2>6
<1>8. CASE s # <<>>
  <2> HIDE DEF rules
  <2>1. PICK ss : ss = [k \in 1 .. Len(s) |-> rules(s[k])]
    OBVIOUS
  <2>2. ss = [k \in DOMAIN s |-> ss[k]] /\ DOMAIN s = 1 .. Len(s) /\ Len(s) \in Nat
    BY <1>4, <2>1, ListIs
  <2>3. IsSequence(ss)
    BY <1>4, <2>2, EachIs
  <2>4. Len(ss) = Len(s)
    BY <2>2, <2>3 DEF IsSequence
  <2>5. \A k \in 1 .. Len(ss) : Listing(n, ss[k])
    <3>1. \A k \in 1 .. Len(s) : s[k] \in P
      BY <1>4, ListIs
    <3> QED BY <1>7, <2>1, <2>4, <3>1
  <2>6. \A k \in 1 .. Len(ss) : IsSequence(ss[k])
    BY <2>5 DEF Listing
  <2>7. /\ IsSequence(Concat(ss))
        /\ \A x : x \in ToSet(Concat(ss)) <=> \E k \in 1 .. Len(ss) : x \in ToSet(ss[k])
    BY <2>3, <2>6, ConcatIs
  <2>8. Listing(n, Concat(ss))
    BY <2>5, <2>7 DEF Listing
  <2>9. SourceRules(n, lane, f, i) = Concat(ss)
    BY <1>5, <1>8, <2>1
  <2> QED BY <2>8, <2>9
<1>9. CASE s = <<>>
  <2>1. PICK a : a = rule(Default, Default, lane.priority, lane.table, FALSE)
    OBVIOUS
  <2>2. own => CommandOf(n, a)
    <3>1. SUFFICES ASSUME own PROVE CommandOf(n, a)
      OBVIOUS
    <3>2. /\ a.op = "rule" /\ a.fam = f /\ a.iif = i /\ a.priority = lane.priority
          /\ a.table = lane.table
      BY <2>1 DEF Rule
    <3>3. Numbered(lane, a) /\ BySource(n, lane, a)
      BY <1>0, <1>1, <3>1, <3>2 DEF Numbered, BySource
    <3> QED BY <3>2, <3>3 DEF CommandOf, RuleOf
  <2>3. own => Listing(n, <<a>>)
    <3>1. IsSequence(<<a>>) /\ ToSet(<<a>>) = {a}
      BY Spelled
    <3> QED BY <2>2, <3>1 DEF Listing
  <2>4. SourceRules(n, lane, f, i) = IF own THEN <<a>> ELSE <<>>
    BY <1>5, <1>9, <2>1
  <2> QED BY <2>3, <2>4, ListingNone
<1> QED BY <1>8, <1>9

\* Whoever comes from behind an interface that a lane serves gets its rule, and
\* everyone where the lane knows of nobody.
Covering(n, lane, f, i, from) ==
    \/ from \in SourcePrefixes(n, i, f, i # lane.on)
    \/ i = lane.on /\ SourcePrefixes(n, i, f, FALSE) = {} /\ from = Default

ServingRule(lane, f, i, from) ==
    Rule(f, from, Default, i, lane.priority, lane.table, FALSE)

LEMMA SourceRulesHave ==
  ASSUME NEW n, WellShaped(n), NEW lane \in LaneSet(n), NEW f \in Families,
         NEW i, Serves(lane, i), lane.groups[f] # NoGroups,
         NEW from, Covering(n, lane, f, i, from)
  PROVE  ServingRule(lane, f, i, from) \in ToSet(SourceRules(n, lane, f, i))
<1>0. i \in Interfaces(n)
  BY SourcesAre
<1>1. PICK own \in BOOLEAN : own <=> i = lane.on
  OBVIOUS
<1>2. PICK P : P = SourcePrefixes(n, i, f, ~own)
  OBVIOUS
<1>3. PICK s : s = InSomeOrder(P)
  OBVIOUS
<1>4. IsSequence(s) /\ ToSet(s) = P
  BY <1>0, <1>2, <1>3, FiniteSources, InSomeOrderIs
<1> DEFINE rule(p, to, priority, table, suppress) ==
               Rule(f, p, to, i, priority, table, suppress)
           pair(p, priority, table, suppress) ==
               <<rule(p, Default, priority, table, suppress)>>
               \o IF own THEN <<rule(Default, p, priority, table, suppress)>> ELSE <<>>
           rules(p) ==
               pair(p, lane.priority, lane.table, FALSE)
               \o IF lane.suppress = 0 THEN <<>> ELSE pair(p, lane.suppress, Main, TRUE)
<1>5. SourceRules(n, lane, f, i) =
          IF s # <<>> THEN Concat([k \in 1 .. Len(s) |-> rules(s[k])])
          ELSE IF own THEN <<rule(Default, Default, lane.priority, lane.table, FALSE)>>
          ELSE <<>>
  BY <1>1, <1>2, <1>3 DEF SourceRules
<1>6. ASSUME NEW p, NEW priority, NEW table, NEW suppress
      PROVE  /\ IsSequence(pair(p, priority, table, suppress))
             /\ rule(p, Default, priority, table, suppress)
                \in ToSet(pair(p, priority, table, suppress))
  <2>1. PICK a, b : /\ a = rule(p, Default, priority, table, suppress)
                    /\ b = rule(Default, p, priority, table, suppress)
    OBVIOUS
  <2>2. PICK q, t : /\ t = IF own THEN <<b>> ELSE <<>>
                    /\ q = <<a>> \o t
    OBVIOUS
  <2>3. /\ IsSequence(<<a>>) /\ ToSet(<<a>>) = {a}
        /\ IsSequence(<<b>>) /\ IsSequence(<<>>)
    BY Spelled
  <2>4. IsSequence(t)
    BY <2>2, <2>3
  <2>5. IsSequence(q) /\ ToSet(q) = {a} \cup ToSet(t)
    BY <2>2, <2>3, <2>4, JoinIs
  <2>6. q = pair(p, priority, table, suppress)
    BY <2>1, <2>2
  <2> QED BY <2>1, <2>5, <2>6
<1>7. ASSUME NEW p
      PROVE  /\ IsSequence(rules(p))
             /\ rule(p, Default, lane.priority, lane.table, FALSE) \in ToSet(rules(p))
  <2> HIDE DEF pair
  <2>1. PICK a, b, t : /\ a = pair(p, lane.priority, lane.table, FALSE)
                       /\ b = pair(p, lane.suppress, Main, TRUE)
                       /\ t = IF lane.suppress = 0 THEN <<>> ELSE b
    OBVIOUS
  <2>2. IsSequence(a) /\ IsSequence(b) /\ rule(p, Default, lane.priority, lane.table, FALSE) \in ToSet(a)
    BY <1>6, <2>1
  <2>3. IsSequence(t)
    BY <2>1, <2>2, Spelled
  <2>4. IsSequence(a \o t) /\ ToSet(a \o t) = ToSet(a) \cup ToSet(t)
    BY <2>2, <2>3, JoinIs
  <2>5. rules(p) = a \o t
    BY <2>1
  <2> QED BY <2>2, <2>4, <2>5
<1>8. CASE from \in P
  <2> HIDE DEF rules
  <2>0. s # <<>>
    BY <1>4, <1>8, Spelled
  <2>1. PICK ss : ss = [k \in 1 .. Len(s) |-> rules(s[k])]
    OBVIOUS
  <2>2. ss = [k \in DOMAIN s |-> ss[k]] /\ DOMAIN s = 1 .. Len(s) /\ Len(s) \in Nat
    BY <1>4, <2>1, ListIs
  <2>3. IsSequence(ss)
    BY <1>4, <2>2, EachIs
  <2>4. Len(ss) = Len(s)
    BY <2>2, <2>3 DEF IsSequence
  <2>5. \A k \in 1 .. Len(ss) : IsSequence(ss[k])
    BY <1>7, <2>1, <2>4
  <2>6. /\ IsSequence(Concat(ss))
        /\ \A x : x \in ToSet(Concat(ss)) <=> \E k \in 1 .. Len(ss) : x \in ToSet(ss[k])
    BY <2>3, <2>5, ConcatIs
  <2>7. PICK k \in 1 .. Len(s) : s[k] = from
    BY <1>4, <1>8, ListIs
  <2>8. rule(from, Default, lane.priority, lane.table, FALSE) \in ToSet(ss[k])
    BY <1>7, <2>1, <2>7
  <2>9. SourceRules(n, lane, f, i) = Concat(ss)
    BY <1>5, <2>0, <2>1
  <2> QED BY <2>4, <2>6, <2>8, <2>9 DEF ServingRule
<1>9. CASE from \notin P
  <2>1. own /\ P = {} /\ from = Default
    BY <1>1, <1>2, <1>9 DEF Covering
  <2>2. s = <<>>
    <3>1. Len(s) \in Nat /\ \A k \in 1 .. Len(s) : s[k] \in P
      BY <1>4, ListIs
    <3>2. Len(s) = 0
      BY <2>1, <3>1
    <3> QED BY <1>4, <3>2, ListIs, EmptySeq DEF IsSequence
  <2>3. PICK a : a = rule(Default, Default, lane.priority, lane.table, FALSE)
    OBVIOUS
  <2>4. SourceRules(n, lane, f, i) = <<a>>
    BY <1>5, <2>1, <2>2, <2>3
  <2>5. ToSet(<<a>>) = {a}
    BY Spelled
  <2> QED BY <2>1, <2>3, <2>4, <2>5 DEF ServingRule
<1> QED BY <1>8, <1>9

\* The rules and routes of the addresses a resolver answers from.
LEMMA OwnSourceRulesAre ==
  ASSUME NEW n, WellShaped(n), NEW lane \in LaneSet(n), NEW f \in Families,
         HasDefault(lane, f)
  PROVE  LET rules == OwnSourceRules(n, lane, f, <<lane.on>> \o lane.shared)
         IN  /\ Listing(n, rules)
             /\ \A b \in ToSet(n.resolverSources) :
                    (HasSubnet(n, b, f) /\ Serves(lane, b)) =>
                    /\ Route(f, lane.table, n.ifs[b].net[f], {Hop(OnLink, b)}) \in ToSet(rules)
                    /\ Rule(f, n.ifs[b].self[f], Default, AnyDevice,
                            lane.priority, lane.table, FALSE) \in ToSet(rules)
<1>1. PICK src : src = <<lane.on>> \o lane.shared
  OBVIOUS
<1>2. PICK B : B = {i \in ToSet(src) : HasSubnet(n, i, f)}
  OBVIOUS
<1>3. PICK s : s = Keep(n.resolverSources, B)
  OBVIOUS
<1>4. IsSequence(s) /\ ToSet(s) = ToSet(n.resolverSources) \cap B
  <2>1. IsSequence(n.resolverSources)
    BY DEF WellShaped
  <2> QED BY <1>3, <2>1, KeepIs
<1>5. \A b : b \in ToSet(s) <=>
             /\ b \in ToSet(n.resolverSources) /\ HasSubnet(n, b, f) /\ Serves(lane, b)
  BY <1>1, <1>2, <1>4, SourcesAre
<1> DEFINE route(b) == Route(f, lane.table, n.ifs[b].net[f], {Hop(OnLink, b)})
           rule(b) == Rule(f, n.ifs[b].self[f], Default, AnyDevice,
                           lane.priority, lane.table, FALSE)
<1>6. PICK ss : ss = [k \in 1 .. Len(s) |-> <<route(s[k]), rule(s[k])>>]
  OBVIOUS
<1>7. PICK all : all = Concat(ss)
  OBVIOUS
<1>8. OwnSourceRules(n, lane, f, src) = all
  BY <1>2, <1>3, <1>6, <1>7 DEF OwnSourceRules
<1>9. ASSUME NEW b \in ToSet(s) PROVE CommandOf(n, route(b)) /\ CommandOf(n, rule(b))
  <2>1. PICK x, y : x = route(b) /\ y = rule(b)
    OBVIOUS
  <2>2. /\ x.op = "route" /\ x.fam = f /\ x.table = lane.table
        /\ x.dst = n.ifs[b].net[f] /\ x.hops = {Hop(OnLink, b)}
        /\ y.op = "rule" /\ y.fam = f /\ y.priority = lane.priority /\ y.iif = AnyDevice
    BY <2>1 DEF Route, Rule
  <2>3. Attaching(n, lane, x)
    BY <1>5, <2>2 DEF Attaching
  <2>4. FromResolver(n, lane, y) /\ Numbered(lane, y)
    <3>1. Numbered(lane, y)
      BY <2>2 DEF Numbered
    <3> QED BY <1>5, <2>1, <2>2, <3>1 DEF FromResolver
  <2>5. CommandOf(n, x)
    BY <2>2, <2>3 DEF CommandOf, RouteOf
  <2>6. CommandOf(n, y)
    BY <2>2, <2>4 DEF CommandOf, RuleOf
  <2> QED BY <2>1, <2>5, <2>6
<1> HIDE DEF route, rule
<1>10. /\ IsSequence(ss) /\ Len(ss) = Len(s) /\ Len(s) \in Nat
       /\ \A k \in 1 .. Len(ss) : IsSequence(ss[k]) /\ ToSet(ss[k]) = {route(s[k]), rule(s[k])}
  <2>1. ss = [k \in DOMAIN s |-> ss[k]] /\ DOMAIN s = 1 .. Len(s) /\ Len(s) \in Nat
    BY <1>4, <1>6, ListIs
  <2>2. IsSequence(ss)
    BY <1>4, <2>1, EachIs
  <2>3. Len(ss) = Len(s)
    BY <2>1, <2>2 DEF IsSequence
  <2>4. \A k \in 1 .. Len(s) : ss[k] = <<route(s[k]), rule(s[k])>>
    BY <1>6
  <2>5. ASSUME NEW k \in 1 .. Len(s)
        PROVE  IsSequence(ss[k]) /\ ToSet(ss[k]) = {route(s[k]), rule(s[k])}
    <3>1. PICK a, b : a = route(s[k]) /\ b = rule(s[k])
      OBVIOUS
    <3>2. ss[k] = <<a, b>>
      BY <2>4, <3>1
    <3>3. IsSequence(<<a, b>>) /\ ToSet(<<a, b>>) = {a, b}
      BY Spelled
    <3> QED BY <3>1, <3>2, <3>3
  <2> QED BY <2>1, <2>2, <2>3, <2>5
<1>11. /\ IsSequence(all)
       /\ \A x : x \in ToSet(all) <=> \E k \in 1 .. Len(ss) : x \in ToSet(ss[k])
  BY <1>7, <1>10, ConcatIs
<1>12. \A b : b \in ToSet(s) <=> \E k \in 1 .. Len(s) : s[k] = b
  BY <1>4, ListIs
<1>13. \A x : x \in ToSet(all) <=> \E b \in ToSet(s) : x = route(b) \/ x = rule(b)
  <2>1. \A x : x \in ToSet(all) <=> \E k \in 1 .. Len(s) : x = route(s[k]) \/ x = rule(s[k])
    <3>1. \A k \in 1 .. Len(s) : \A x : x \in ToSet(ss[k]) <=> (x = route(s[k]) \/ x = rule(s[k]))
      BY <1>10
    <3> QED BY <1>10, <1>11, <3>1
  <2> QED BY ONLY <1>12, <2>1
<1>14. Listing(n, all)
  BY <1>9, <1>11, <1>13 DEF Listing
<1>15. \A b \in ToSet(n.resolverSources) :
           (HasSubnet(n, b, f) /\ Serves(lane, b)) => route(b) \in ToSet(all) /\ rule(b) \in ToSet(all)
  BY <1>5, <1>13
<1> QED BY <1>1, <1>8, <1>14, <1>15 DEF route, rule

LEMMA FamilyTableIs ==
  ASSUME NEW n, WellShaped(n), NEW lane \in LaneSet(n), NEW f \in Families,
         lane.groups[f] # NoGroups
  PROVE  /\ Listing(n, FamilyTable(n, lane, f))
         /\ ToSet(TableRoutes(lane, f)) \subseteq ToSet(FamilyTable(n, lane, f))
         /\ HasDefault(lane, f) =>
                ToSet(OwnSourceRules(n, lane, f, <<lane.on>> \o lane.shared))
                \subseteq ToSet(FamilyTable(n, lane, f))
         /\ (~FacesUplink(n, lane) \/ HasDefault(lane, f)) =>
                \A i, from : (Serves(lane, i) /\ Covering(n, lane, f, i, from)) =>
                    ServingRule(lane, f, i, from) \in ToSet(FamilyTable(n, lane, f))
<1>1. PICK src : src = <<lane.on>> \o lane.shared
  OBVIOUS
<1>2. IsSequence(src) /\ \A i : i \in ToSet(src) <=> Serves(lane, i)
  BY <1>1, SourcesAre
<1>3. PICK ss : ss = [k \in 1 .. Len(src) |-> SourceRules(n, lane, f, src[k])]
  OBVIOUS
<1>4. /\ Listing(n, Concat(ss))
      /\ \A i, from : (Serves(lane, i) /\ Covering(n, lane, f, i, from)) =>
                          ServingRule(lane, f, i, from) \in ToSet(Concat(ss))
  <2>1. ss = [k \in DOMAIN src |-> ss[k]] /\ DOMAIN src = 1 .. Len(src) /\ Len(src) \in Nat
    BY <1>2, <1>3, ListIs
  <2>2. IsSequence(ss)
    BY <1>2, <2>1, EachIs
  <2>3. Len(ss) = Len(src)
    BY <2>1, <2>2 DEF IsSequence
  <2>4. \A k \in 1 .. Len(src) : Serves(lane, src[k])
    BY <1>2, ListIs
  <2>5. \A k \in 1 .. Len(ss) : Listing(n, ss[k])
    BY <1>3, <2>3, <2>4, SourceRulesAre
  <2>6. \A k \in 1 .. Len(ss) : IsSequence(ss[k])
    BY <2>5 DEF Listing
  <2>7. /\ IsSequence(Concat(ss))
        /\ \A x : x \in ToSet(Concat(ss)) <=> \E k \in 1 .. Len(ss) : x \in ToSet(ss[k])
    BY <2>2, <2>6, ConcatIs
  <2>8. ASSUME NEW i, NEW from, Serves(lane, i), Covering(n, lane, f, i, from)
        PROVE  ServingRule(lane, f, i, from) \in ToSet(Concat(ss))
    <3>1. PICK k \in 1 .. Len(src) : src[k] = i
      BY <1>2, <2>8, ListIs
    <3>2. ServingRule(lane, f, i, from) \in ToSet(ss[k])
      BY <1>3, <2>8, <3>1, SourceRulesHave
    <3> QED BY <2>3, <2>7, <3>1, <3>2
  <2>9. Listing(n, Concat(ss))
    BY <2>5, <2>7 DEF Listing
  <2> QED BY <2>8, <2>9
<1>5. PICK a, b, c :
          /\ a = TableRoutes(lane, f)
          /\ b = IF ~FacesUplink(n, lane) \/ HasDefault(lane, f) THEN Concat(ss) ELSE <<>>
          /\ c = IF HasDefault(lane, f) THEN OwnSourceRules(n, lane, f, src) ELSE <<>>
  OBVIOUS
<1>6. FamilyTable(n, lane, f) = (a \o b) \o c
  BY <1>1, <1>3, <1>5 DEF FamilyTable
<1>7. Listing(n, a)
  BY <1>5, TableRoutesAre
<1>8. Listing(n, b)
  BY <1>4, <1>5, ListingNone
<1>9. Listing(n, c)
  <2>1. CASE HasDefault(lane, f)
    BY <1>1, <1>5, <2>1, OwnSourceRulesAre
  <2>2. CASE ~HasDefault(lane, f)
    BY <1>5, <2>2, ListingNone
  <2> QED BY <2>1, <2>2
<1>10. Listing(n, a \o b) /\ ToSet(a \o b) = ToSet(a) \cup ToSet(b)
  BY <1>7, <1>8, ListingJoin
<1>11. /\ Listing(n, (a \o b) \o c)
       /\ ToSet((a \o b) \o c) = ToSet(a \o b) \cup ToSet(c)
  BY <1>9, <1>10, ListingJoin
<1>12. (~FacesUplink(n, lane) \/ HasDefault(lane, f)) =>
           ToSet(Concat(ss)) \subseteq ToSet((a \o b) \o c)
  BY <1>5, <1>10, <1>11
<1> QED BY <1>1, <1>4, <1>5, <1>6, <1>10, <1>11, <1>12

LEMMA LaneTablesAre ==
  ASSUME NEW n, WellShaped(n), NEW lane \in LaneSet(n)
  PROVE  /\ Listing(n, LaneTables(n, lane))
         /\ \A f \in Families : lane.groups[f] # NoGroups =>
                ToSet(FamilyTable(n, lane, f)) \subseteq ToSet(LaneTables(n, lane))
         /\ (lane.groups[4] = NoGroups /\ ~FacesUplink(n, lane)) =>
                {Route(4, lane.table, Default, Blackhole), UnscopedRule(lane, 4)}
                \subseteq ToSet(LaneTables(n, lane))
<1> DEFINE empty(f) == lane.groups[f] = NoGroups
<1>0. 4 \in Families /\ 6 \in Families /\ \A f \in Families : f = 4 \/ f = 6
  BY DEF Families
<1>1. PICK r4, r6, block : /\ r4 = UnscopedRule(lane, 4) /\ r6 = UnscopedRule(lane, 6)
                           /\ block = Route(4, lane.table, Default, Blackhole)
  OBVIOUS
<1>2. CommandOf(n, r4) /\ CommandOf(n, r6)
  <2>1. /\ r4.op = "rule" /\ r4.fam = 4 /\ r4.priority = lane.priority /\ r4.iif = lane.on
        /\ r6.op = "rule" /\ r6.fam = 6 /\ r6.priority = lane.priority /\ r6.iif = lane.on
    BY <1>1 DEF UnscopedRule, Rule
  <2>2. Denying(lane, r4) /\ Denying(lane, r6) /\ Numbered(lane, r4) /\ Numbered(lane, r6)
    BY <1>1, <2>1 DEF Denying, Numbered, Serves
  <2> QED BY <1>0, <2>1, <2>2 DEF CommandOf, RuleOf
<1>3. empty(4) => CommandOf(n, block)
  <2>1. /\ block.op = "route" /\ block.fam = 4 /\ block.table = lane.table
        /\ block.dst = Default /\ block.hops = Blackhole
    BY <1>1 DEF Route
  <2>2. empty(4) => Blocking(lane, block)
    BY <2>1 DEF Blocking
  <2> QED BY <1>0, <2>1, <2>2 DEF CommandOf, RouteOf
<1>4. /\ IsSequence(<<block, r4>>) /\ ToSet(<<block, r4>>) = {block, r4}
      /\ IsSequence(<<r6>>) /\ ToSet(<<r6>>) = {r6}
  BY Spelled
<1>5. PICK a : a = CASE ~empty(4) -> FamilyTable(n, lane, 4)
                     [] empty(4) /\ ~FacesUplink(n, lane) -> <<block, r4>>
                     [] empty(4) /\ FacesUplink(n, lane) -> <<>>
  OBVIOUS
<1>6. PICK b : b = CASE ~empty(6) -> FamilyTable(n, lane, 6)
                     [] Denied(lane) /\ ~FacesUplink(n, lane) -> <<r6>>
                     [] OTHER -> <<>>
  OBVIOUS
<1>7. LaneTables(n, lane) = a \o b
  BY <1>1, <1>5, <1>6 DEF LaneTables
<1>8. /\ ~empty(4) => a = FamilyTable(n, lane, 4)
      /\ empty(4) /\ ~FacesUplink(n, lane) => a = <<block, r4>>
      /\ empty(4) /\ FacesUplink(n, lane) => a = <<>>
  BY <1>5
<1>9. ~empty(6) => b = FamilyTable(n, lane, 6)
  <2>1. Denied(lane) => empty(6)
    BY <1>0 DEF Denied
  <2> QED BY <1>6, <2>1
<1>10. empty(6) => b = <<r6>> \/ b = <<>>
  BY <1>6
<1>11. Listing(n, a)
  <2>1. CASE ~empty(4)
    BY <1>0, <1>8, <2>1, FamilyTableIs
  <2>2. CASE empty(4) /\ ~FacesUplink(n, lane)
    BY <1>2, <1>3, <1>4, <1>8, <2>2 DEF Listing
  <2>3. CASE empty(4) /\ FacesUplink(n, lane)
    BY <1>8, <2>3, ListingNone
  <2> QED BY <2>1, <2>2, <2>3
<1>12. Listing(n, b)
  <2>1. CASE ~empty(6)
    BY <1>0, <1>9, <2>1, FamilyTableIs
  <2>2. Listing(n, <<r6>>)
    BY <1>2, <1>4 DEF Listing
  <2>3. CASE empty(6)
    BY <1>10, <2>2, <2>3, ListingNone
  <2> QED BY <2>1, <2>3
<1>13. Listing(n, a \o b) /\ ToSet(a \o b) = ToSet(a) \cup ToSet(b)
  BY <1>11, <1>12, ListingJoin
<1>14. \A f \in Families : ~empty(f) => ToSet(FamilyTable(n, lane, f)) \subseteq ToSet(a \o b)
  BY <1>0, <1>8, <1>9, <1>13
<1>15. empty(4) /\ ~FacesUplink(n, lane) => {block, r4} \subseteq ToSet(a \o b)
  BY <1>4, <1>8, <1>13
<1> QED BY <1>1, <1>7, <1>13, <1>14, <1>15
----------------------------------------------------------------------------
\* The interfaces a lane may claim destinations on.
Claimable(n, lane, devices) ==
    /\ IsFiniteSet(devices)
    /\ \A i \in devices : /\ i \in Interfaces(n)
                          /\ \/ Contains(lane.shared, i)
                             \/ /\ Lane(n, lane.on).access # None
                                /\ Lane(n, i).access = Lane(n, lane.on).access

AllServed(by, devices) == \A i \in devices : Serves(by, i)

\* Of every destination of a lane there is a claim, old or new.
WellClaimed(n, old, lane, devices, new) ==
    /\ IsFiniteSet(new)
    /\ \A c \in new : CommandOf(n, c) /\ c.op = "rule" /\ Claiming(n, lane, c)
    /\ \A f \in Families : \A d \in DOMAIN lane.groups[f] \ {Default} :
           \A i \in devices :
               \E c \in old \cup new : c.fam = f /\ c.to = d /\ c.iif = i

LEMMA NewClaimsAre ==
  ASSUME NEW n, WellShaped(n), NEW lane \in LaneSet(n), NEW by \in LaneSet(n),
         NEW devices, Claimable(n, lane, devices), AllServed(by, devices), NEW old
  PROVE  WellClaimed(n, old, lane, devices,
                     NewClaims(old, lane, devices, by.priority, lane.table))
<1>0. /\ IsFiniteSet(devices)
      /\ \A i \in devices : /\ i \in Interfaces(n)
                            /\ \/ Contains(lane.shared, i)
                               \/ /\ Lane(n, lane.on).access # None
                                  /\ Lane(n, i).access = Lane(n, lane.on).access
  BY DEF Claimable
<1> DEFINE Dsts(f) == DOMAIN lane.groups[f] \ {Default}
           wanted == UNION {{f} \X Dsts(f) \X devices : f \in Families}
           free(f, d, i) == ~\E r \in old : <<r.fam, r.to, r.iif>> = <<f, d, i>>
           rule(f, d, i) == Rule(f, Default, d, i, by.priority, lane.table, FALSE)
<1>1. PICK new : new = NewClaims(old, lane, devices, by.priority, lane.table)
  OBVIOUS
<1>2. \A c : c \in new <=> \E f \in Families : \E d \in Dsts(f) : \E i \in devices :
                               free(f, d, i) /\ c = rule(f, d, i)
  <2>1. \A w : w \in wanted <=> \E f \in Families : \E d \in Dsts(f) : \E i \in devices :
                                    w = <<f, d, i>>
    <3> HIDE DEF Dsts
    <3> QED OBVIOUS
  <2>2. new = {rule(w[1], w[2], w[3]) : w \in {v \in wanted : free(v[1], v[2], v[3])}}
    BY <1>1 DEF NewClaims
  <2> HIDE DEF wanted, free, rule, Dsts
  <2>3. \A c : c \in new <=> \E w \in wanted : free(w[1], w[2], w[3]) /\ c = rule(w[1], w[2], w[3])
    BY <2>2
  <2>4. ASSUME NEW c, NEW w \in wanted, free(w[1], w[2], w[3]), c = rule(w[1], w[2], w[3])
        PROVE  \E f \in Families : \E d \in Dsts(f) : \E i \in devices :
                   free(f, d, i) /\ c = rule(f, d, i)
    <3>1. PICK f \in Families : \E d \in Dsts(f) : \E i \in devices : w = <<f, d, i>>
      BY <2>1
    <3>2. PICK d \in Dsts(f) : \E i \in devices : w = <<f, d, i>>
      BY <3>1
    <3>3. PICK i \in devices : w = <<f, d, i>>
      BY <3>2
    <3>4. w[1] = f /\ w[2] = d /\ w[3] = i
      BY <3>3
    <3> QED BY <2>4, <3>4
  <2>5. ASSUME NEW c, NEW f \in Families, NEW d \in Dsts(f), NEW i \in devices,
               free(f, d, i), c = rule(f, d, i)
        PROVE  c \in new
    <3>1. PICK w : w = <<f, d, i>>
      OBVIOUS
    <3>2. w[1] = f /\ w[2] = d /\ w[3] = i
      BY <3>1
    <3>3. w \in wanted
      BY <2>1, <3>1
    <3> QED BY <2>3, <2>5, <3>2, <3>3
  <2> QED BY <2>3, <2>4, <2>5
<1> HIDE DEF wanted
<1>3. ASSUME NEW c \in new PROVE CommandOf(n, c) /\ c.op = "rule" /\ Claiming(n, lane, c)
  <2>0. PICK f \in Families : \E d \in Dsts(f) : \E i \in devices : c = rule(f, d, i)
    BY <1>2
  <2>1. PICK d \in Dsts(f) : \E i \in devices : c = rule(f, d, i)
    BY <2>0
  <2>2. PICK i \in devices : c = rule(f, d, i)
    BY <2>1
  <2>3. /\ c.op = "rule" /\ c.fam = f /\ c.from = Default /\ c.to = d /\ c.iif = i
        /\ c.priority = by.priority /\ c.table = lane.table /\ c.suppress = FALSE
    BY <2>2 DEF Rule
  <2>4. c = Rule(c.fam, Default, c.to, c.iif, c.priority, lane.table, FALSE)
    BY <2>2, <2>3
  <2>5. Claiming(n, lane, c)
    BY <1>0, <2>3, <2>4 DEF Claiming
  <2>6. Numbered(by, c)
    BY <2>2, <2>3 DEF Numbered, AllServed
  <2>7. CommandOf(n, c)
    BY <2>3, <2>5, <2>6 DEF CommandOf, RuleOf
  <2> QED BY <2>3, <2>5, <2>7
<1>4. IsFiniteSet(new)
  <2>1. PICK D : D = Dsts(4) \cup Dsts(6)
    OBVIOUS
  <2>2. IsFiniteSet(D)
    <3>1. 4 \in Families /\ 6 \in Families
      BY DEF Families
    <3>2. WellGrouped(lane.groups[4]) /\ WellGrouped(lane.groups[6])
      BY <3>1, LaneRoutes
    <3>3. IsFiniteSet(DOMAIN lane.groups[4]) /\ IsFiniteSet(DOMAIN lane.groups[6])
      BY <3>2 DEF WellGrouped
    <3>4. IsFiniteSet(Dsts(4)) /\ IsFiniteSet(Dsts(6))
      BY <3>3, FS_Subset
    <3> QED BY <2>1, <3>4, FS_Union
  <2>3. IsFiniteSet(D \X devices)
    BY <1>0, <2>2, FS_Product
  <2>4. IsFiniteSet(Families)
    <3>1. IsFiniteSet({4}) /\ IsFiniteSet({6})
      BY FS_Singleton
    <3>2. Families = {4} \cup {6}
      BY DEF Families
    <3> QED BY <3>1, <3>2, FS_Union
  <2>5. PICK S : S = Families \X (D \X devices)
    OBVIOUS
  <2>6. IsFiniteSet(S)
    BY <2>3, <2>4, <2>5, FS_Product
  <2>7. PICK g : g = [x \in S |-> rule(x[1], x[2][1], x[2][2])]
    OBVIOUS
  <2>8. ASSUME NEW c \in new PROVE \E x \in S : c = g[x]
    <3>0. PICK f \in Families : \E d \in Dsts(f) : \E i \in devices : c = rule(f, d, i)
      BY <1>2
    <3>1. PICK d \in Dsts(f) : \E i \in devices : c = rule(f, d, i)
      BY <3>0
    <3>2. PICK i \in devices : c = rule(f, d, i)
      BY <3>1
    <3>3. d \in D
      BY <2>1 DEF Families
    <3>7. PICK q : q = <<d, i>>
      OBVIOUS
    <3>8. PICK x : x = <<f, q>>
      OBVIOUS
    <3>4. x[1] = f /\ x[2] = q /\ q[1] = d /\ q[2] = i
      BY <3>7, <3>8
    <3>5. x \in S
      BY <2>5, <3>3, <3>7, <3>8
    <3>6. g[x] = rule(f, d, i)
      BY <2>7, <3>4, <3>5
    <3> QED BY <3>2, <3>5, <3>6
  <2> QED BY <2>6, <2>8, FiniteImage
<1>5. ASSUME NEW f \in Families, NEW d \in Dsts(f), NEW i \in devices
      PROVE  \E c \in old \cup new : c.fam = f /\ c.to = d /\ c.iif = i
  <2>1. CASE free(f, d, i)
    <3>1. PICK c : c = rule(f, d, i)
      OBVIOUS
    <3>2. c \in new
      BY <1>2, <2>1, <3>1
    <3>3. c.fam = f /\ c.to = d /\ c.iif = i
      BY <3>1 DEF Rule
    <3> QED BY <3>2, <3>3
  <2>2. CASE ~free(f, d, i)
    BY <2>2
  <2> QED BY <2>1, <2>2
<1> QED BY <1>1, <1>3, <1>4, <1>5 DEF WellClaimed
----------------------------------------------------------------------------
LEMMA LanesAre ==
  ASSUME NEW n, WellShaped(n), NEW ls \in Seq(LaneSet(n))
  PROVE  /\ Len(ls) \in Nat /\ DOMAIN ls = 1 .. Len(ls)
         /\ \A k \in 1 .. Len(ls) : ls[k] \in LaneSet(n) /\ ls[k].priority \in Nat
<1>1. Len(ls) \in Nat /\ DOMAIN ls = 1 .. Len(ls) /\ \A k \in 1 .. Len(ls) : ls[k] \in LaneSet(n)
  OBVIOUS
<1> QED BY <1>1, LaneFacts

LEMMA DescendingIs ==
  ASSUME NEW n, WellShaped(n), NEW ls \in Seq(LaneSet(n))
  PROVE  /\ IsSequence(Descending(ls)) /\ ToSet(Descending(ls)) = DOMAIN ls
         /\ Len(Descending(ls)) = Len(ls)
<1>1. PICK m \in Nat : m = Len(ls)
  BY LanesAre
<1>2. PICK D : D = DOMAIN ls /\ D = 1 .. m
  BY <1>1, LanesAre
<1>3. PICK R : R = {p \in D \X D :
                        \/ ls[p[1]].priority > ls[p[2]].priority
                        \/ ls[p[1]].priority = ls[p[2]].priority /\ p[1] < p[2]}
  OBVIOUS
<1>4. PICK f : f = [k \in 1 .. m |-> ls[k].priority]
  OBVIOUS
<1>5. \A k \in 1 .. m : f[k] \in Nat
  BY <1>1, <1>4, LanesAre
<1>6. ASSUME NEW T \in SUBSET D, T # {}
      PROVE  \E x \in T : \A y \in T : y = x \/ <<x, y>> \in R
  <2>1. PICK x \in T : \A y \in T : y = x \/ f[x] > f[y] \/ (f[x] = f[y] /\ x < y)
    BY <1>2, <1>5, <1>6, Highest
  <2>2. ASSUME NEW y \in T PROVE y = x \/ <<x, y>> \in R
    <3>1. f[x] = ls[x].priority /\ f[y] = ls[y].priority /\ x \in D /\ y \in D
      BY <1>2, <1>4
    <3>2. <<x, y>> \in D \X D /\ <<x, y>>[1] = x /\ <<x, y>>[2] = y
      BY <3>1
    <3> QED BY <1>3, <2>1, <3>1, <3>2
  <2> QED BY <2>2
<1>7. IsFiniteSet(D) /\ Cardinality(D) = m
  <2>1. IsFiniteSet(1 .. m) /\ Cardinality(1 .. m) = IF 1 > m THEN 0 ELSE m - 1 + 1
    BY FS_Interval
  <2>2. (IF 1 > m THEN 0 ELSE m - 1 + 1) = m
    OBVIOUS
  <2> QED BY <1>2, <2>1, <2>2
<1>8. Descending(ls) = Sorted(D, R)
  BY <1>2, <1>3 DEF Descending
<1>9. /\ IsSequence(Sorted(D, R)) /\ ToSet(Sorted(D, R)) = D
      /\ Len(Sorted(D, R)) = Cardinality(D)
  BY ONLY <1>6, <1>7, SortedIs
<1> QED BY <1>1, <1>2, <1>7, <1>8, <1>9

\* The pairs of lanes that phases 4 and 5 go through.
Linked(n, us, ds) ==
    /\ ~Denied(us) /\ ~Denied(ds)
    /\ Lane(n, us.on).access # None
    /\ Lane(n, us.on).access = Lane(n, ds.on).access
    /\ FacesUpstream(n, us) /\ FacesDownstream(n, ds)
    /\ us.table # ds.table

LEMMA CrossPairsAre ==
  ASSUME NEW n, WellShaped(n), NEW ls \in Seq(LaneSet(n))
  PROVE  /\ IsSequence(CrossPairs(n, ls))
         /\ \A p \in ToSet(CrossPairs(n, ls)) :
                p.us \in LaneSet(n) /\ p.ds \in LaneSet(n) /\ Linked(n, p.us, p.ds)
         /\ \A u, d \in ToSet(ls) : Linked(n, u, d) =>
                [us |-> u, ds |-> d] \in ToSet(CrossPairs(n, ls))
<1>1. PICK order : order = Descending(ls)
  OBVIOUS
<1>2. IsSequence(order) /\ ToSet(order) = DOMAIN ls
  BY <1>1, DescendingIs
<1>3. DOMAIN order = 1 .. Len(order) /\ Len(order) \in Nat
  BY <1>2, ListIs
<1>4. \A k \in 1 .. Len(order) : ls[order[k]] \in LaneSet(n)
  BY <1>2, <1>3, ListIs, LanesAre
<1> DEFINE pair(u, d) == [us |-> ls[order[u]], ds |-> ls[order[d]]]
           linked(p) == /\ ~Denied(p.us) /\ ~Denied(p.ds)
                        /\ Lane(n, p.us.on).access # None
                        /\ Lane(n, p.us.on).access = Lane(n, p.ds.on).access
                        /\ FacesUpstream(n, p.us) /\ FacesDownstream(n, p.ds)
                        /\ p.us.table # p.ds.table
<1>5. PICK ss : ss = [u \in DOMAIN order |-> [d \in DOMAIN order |-> pair(u, d)]]
  OBVIOUS
<1>6. PICK grid : grid = Concat(ss)
  OBVIOUS
<1>7. PICK T : T = {p \in ToSet(grid) : linked(p)}
  OBVIOUS
<1>8. CrossPairs(n, ls) = Keep(grid, T)
  BY <1>1, <1>5, <1>6, <1>7 DEF CrossPairs
<1> HIDE DEF pair
<1>9. IsSequence(ss) /\ Len(ss) = Len(order)
  <2>1. ss = [u \in DOMAIN order |-> ss[u]] /\ DOMAIN ss = DOMAIN order
    BY <1>5
  <2>2. IsSequence(ss)
    BY <1>2, <2>1, EachIs
  <2> QED BY <1>3, <2>1, <2>2 DEF IsSequence
<1>10. ASSUME NEW u \in 1 .. Len(order)
       PROVE  /\ IsSequence(ss[u])
              /\ \A p : p \in ToSet(ss[u]) <=> \E d \in 1 .. Len(order) : p = pair(u, d)
  <2>1. PICK e : e = [d \in DOMAIN order |-> pair(u, d)]
    OBVIOUS
  <2>2. ss[u] = e
    BY <1>3, <1>5, <2>1
  <2>3. e = [d \in DOMAIN order |-> e[d]]
    BY <2>1
  <2>4. IsSequence(e) /\ \A p : p \in ToSet(e) <=> \E d \in 1 .. Len(order) : p = e[d]
    BY ONLY <1>2, <2>3, EachIs, SMTT(30)
  <2>5. \A d \in 1 .. Len(order) : e[d] = pair(u, d)
    BY <1>3, <2>1
  <2>6. ASSUME NEW p PROVE p \in ToSet(e) <=> \E d \in 1 .. Len(order) : p = pair(u, d)
    BY ONLY <2>4, <2>5
  <2> QED BY <2>2, <2>4, <2>6
<1>11. /\ IsSequence(grid)
       /\ \A p : p \in ToSet(grid) <=> \E u \in 1 .. Len(order) : p \in ToSet(ss[u])
  <2>1. \A u \in 1 .. Len(ss) : IsSequence(ss[u])
    BY <1>9, <1>10
  <2>2. /\ IsSequence(Concat(ss))
        /\ \A p : p \in ToSet(Concat(ss)) <=> \E u \in 1 .. Len(ss) : p \in ToSet(ss[u])
    BY ONLY <1>9, <2>1, ConcatIs
  <2> QED BY <1>6, <1>9, <2>2
<1>12. ASSUME NEW p
       PROVE  p \in ToSet(grid) <=> \E u, d \in 1 .. Len(order) : p = pair(u, d)
  <2>1. \A u \in 1 .. Len(order) :
            p \in ToSet(ss[u]) <=> \E d \in 1 .. Len(order) : p = pair(u, d)
    BY <1>10
  <2>2. p \in ToSet(grid) <=> \E u \in 1 .. Len(order) : p \in ToSet(ss[u])
    BY <1>11
  <2> QED BY ONLY <2>1, <2>2, SMTT(30)
<1>13. IsSequence(CrossPairs(n, ls)) /\ ToSet(CrossPairs(n, ls)) = ToSet(grid) \cap T
  BY <1>8, <1>11, KeepIs
<1>14. \A p : p \in ToSet(CrossPairs(n, ls)) <=> (p \in ToSet(grid) /\ linked(p))
  BY <1>7, <1>13
<1>15. ASSUME NEW p \in ToSet(CrossPairs(n, ls))
       PROVE  p.us \in LaneSet(n) /\ p.ds \in LaneSet(n) /\ Linked(n, p.us, p.ds)
  <2>1. PICK u, d \in 1 .. Len(order) : p = pair(u, d)
    BY <1>12, <1>14
  <2>2. p.us = ls[order[u]] /\ p.ds = ls[order[d]]
    BY <2>1 DEF pair
  <2>3. linked(p)
    BY <1>14
  <2> QED BY <1>4, <2>2, <2>3 DEF Linked
<1>16. ASSUME NEW u \in ToSet(ls), NEW d \in ToSet(ls), Linked(n, u, d)
       PROVE  [us |-> u, ds |-> d] \in ToSet(CrossPairs(n, ls))
  <2>0. \A x \in ToSet(ls) : \E k \in 1 .. Len(order) : ls[order[k]] = x
    <3>1. \A x \in ToSet(ls) : \E k \in DOMAIN ls : ls[k] = x
      BY DEF ToSet
    <3>2. \A j \in DOMAIN ls : \E k \in 1 .. Len(order) : order[k] = j
      BY <1>2, ListIs
    <3> QED BY <3>1, <3>2
  <2>1. PICK i, j \in 1 .. Len(order) : ls[order[i]] = u /\ ls[order[j]] = d
    BY <2>0
  <2>5. PICK p : p = [us |-> u, ds |-> d]
    OBVIOUS
  <2>2. p.us = u /\ p.ds = d
    BY <2>5
  <2>3. p = pair(i, j)
    BY <2>1, <2>5 DEF pair
  <2>4. linked(p)
    BY <1>16, <2>2 DEF Linked
  <2> QED BY <1>12, <1>14, <2>3, <2>4, <2>5
<1> QED BY <1>13, <1>15, <1>16
----------------------------------------------------------------------------
LEMMA ListedAre ==
  ASSUME NEW n, WellShaped(n), NEW i \in Interfaces(n), NEW f \in Families
  PROVE  /\ WellGrouped(ListedRoutes(n, i, f))
         /\ \A d, h : Holds(ListedRoutes(n, i, f), d, h) =>
                Lists(n, i, f, d) /\ h.dev = i /\ h.via # Garbled /\ h.via # OnLink
         /\ \A d : Lists(n, i, f, d) => \E h : Holds(ListedRoutes(n, i, f), d, h)
<1> DEFINE chosen == {r \in ToSet(Routes(n, f)) :
                          r.on = i /\ ~r.route.policyOnly /\ r.route.dst # Default}
           via(r) == EffectiveVia(n, r.on, r.route, f)
<1>1. PICK g : g = ListedRoutes(n, i, f) /\ g = Grouped(n, f, chosen)
  BY DEF ListedRoutes
<1>2. /\ WellGrouped(g)
      /\ \A d, h : Holds(g, d, h) <=>
             \E r \in ToSet(Routes(n, f)) :
                 /\ r \in chosen /\ r.route.dst = d
                 /\ via(r) # OnLink /\ h = Hop(via(r), r.on)
  BY <1>1, GroupedIs
<1>3. i \in Nat
  BY InterfacesAre
<1>4. ASSUME NEW d, NEW h, Holds(g, d, h)
      PROVE  Lists(n, i, f, d) /\ h.dev = i /\ h.via # Garbled /\ h.via # OnLink
  <2>1. PICK r \in ToSet(Routes(n, f)) :
            /\ r \in chosen /\ r.route.dst = d
            /\ via(r) # OnLink /\ h = Hop(via(r), r.on)
    BY <1>2, <1>4
  <2>2. r.on = i /\ via(r) = i
    BY <2>1, ViaIs
  <2>3. h.dev = i /\ h.via = i
    BY <2>1, <2>2 DEF Hop
  <2>4. Lists(n, i, f, d)
    BY <2>1, <2>2 DEF Lists
  <2> QED BY <1>3, <2>1, <2>2, <2>3, <2>4 DEF Garbled
<1>5. ASSUME NEW d, Lists(n, i, f, d) PROVE \E h : Holds(g, d, h)
  <2>1. PICK r \in ToSet(Routes(n, f)) :
            /\ r.on = i /\ ~r.route.policyOnly
            /\ r.route.dst = d /\ d # Default
            /\ EffectiveVia(n, i, r.route, f) # OnLink
    BY <1>5 DEF Lists
  <2>2. r \in chosen /\ via(r) # OnLink
    BY <2>1
  <2> QED BY <1>2, <2>1, <2>2
<1> QED BY <1>1, <1>2, <1>4, <1>5

\* Two collections of groups in one.
LEMMA MergedIs ==
  ASSUME NEW g, WellGrouped(g), NEW more, WellGrouped(more)
  PROVE  /\ WellGrouped(Merged(g, more))
         /\ \A d, h : Holds(Merged(g, more), d, h) <=> (Holds(g, d, h) \/ Holds(more, d, h))
<1>1. PICK s : s = InSomeOrder(DOMAIN more)
  OBVIOUS
<1>2. IsSequence(s) /\ ToSet(s) = DOMAIN more
  BY <1>1, InSomeOrderIs DEF WellGrouped
<1>3. DOMAIN s = 1 .. Len(s) /\ Len(s) \in Nat /\ \A d : d \in DOMAIN more <=> \E k \in 1 .. Len(s) : s[k] = d
  BY <1>2, ListIs
<1>4. PICK ss : ss = [k \in 1 .. Len(s) |->
                         [i \in 1 .. Len(more[s[k]]) |-> Listed(s[k], more[s[k]][i])]]
  OBVIOUS
<1>5. PICK all : all = Concat(ss)
  OBVIOUS
<1>6. Merged(g, more) = AddAll(g, all)
  BY <1>1, <1>4, <1>5 DEF Merged
<1>7. IsSequence(ss) /\ Len(ss) = Len(s)
  <2>1. ss = [k \in DOMAIN s |-> ss[k]] /\ DOMAIN ss = DOMAIN s
    BY <1>3, <1>4
  <2>2. IsSequence(ss)
    BY <1>2, <2>1, EachIs
  <2> QED BY <1>3, <2>1, <2>2 DEF IsSequence
<1>8. ASSUME NEW k \in 1 .. Len(s)
      PROVE  /\ IsSequence(ss[k])
             /\ \A x : x \in ToSet(ss[k]) <=> \E h \in ToSet(more[s[k]]) : x = Listed(s[k], h)
  <2>1. PICK d, l : d = s[k] /\ l = more[d]
    OBVIOUS
  <2>2. IsSequence(l)
    BY <1>3, <2>1 DEF WellGrouped
  <2>3. PICK e : e = [i \in 1 .. Len(l) |-> Listed(d, l[i])]
    OBVIOUS
  <2>4. ss[k] = e
    BY <1>4, <2>1, <2>3
  <2>5. DOMAIN l = 1 .. Len(l) /\ \A h : h \in ToSet(l) <=> \E i \in 1 .. Len(l) : l[i] = h
    BY <2>2, ListIs
  <2>6. e = [i \in DOMAIN l |-> e[i]] /\ \A i \in 1 .. Len(l) : e[i] = Listed(d, l[i])
    BY <2>3, <2>5
  <2>7. IsSequence(e) /\ \A x : x \in ToSet(e) <=> \E i \in 1 .. Len(l) : x = e[i]
    BY <2>2, <2>6, EachIs, SMTT(30)
  <2>8. \A x : x \in ToSet(e) <=> \E h \in ToSet(l) : x = Listed(d, h)
    BY <2>5, <2>6, <2>7
  <2> QED BY <2>1, <2>4, <2>7, <2>8
<1>9. /\ IsSequence(all)
      /\ \A x : x \in ToSet(all) <=> \E k \in 1 .. Len(s) : x \in ToSet(ss[k])
  <2>1. \A k \in 1 .. Len(ss) : IsSequence(ss[k])
    BY <1>7, <1>8
  <2>2. /\ IsSequence(Concat(ss))
        /\ \A x : x \in ToSet(Concat(ss)) <=> \E k \in 1 .. Len(ss) : x \in ToSet(ss[k])
    BY ONLY <1>7, <2>1, ConcatIs
  <2> QED BY <1>5, <1>7, <2>2
<1>10. ASSUME NEW x
       PROVE  x \in ToSet(all) <=> \E d \in DOMAIN more : \E h \in ToSet(more[d]) : x = Listed(d, h)
  <2>1. \A k \in 1 .. Len(s) : x \in ToSet(ss[k]) <=> \E h \in ToSet(more[s[k]]) : x = Listed(s[k], h)
    BY <1>8
  <2>2. x \in ToSet(all) <=> \E k \in 1 .. Len(s) : \E h \in ToSet(more[s[k]]) : x = Listed(s[k], h)
    BY <1>9, <2>1
  <2> QED BY ONLY <1>3, <2>2, SMTT(30)
<1>11. ASSUME NEW d, NEW h
       PROVE  (\E k \in 1 .. Len(all) : all[k].dst = d /\ all[k].hop = h) <=> Holds(more, d, h)
  <2>1. \A x : x \in ToSet(all) <=> \E k \in 1 .. Len(all) : all[k] = x
    BY <1>9, ListIs
  <2>2. ASSUME NEW k \in 1 .. Len(all), all[k].dst = d, all[k].hop = h PROVE Holds(more, d, h)
    <3>1. all[k] \in ToSet(all)
      BY <2>1
    <3>0. PICK e \in DOMAIN more : \E x \in ToSet(more[e]) : all[k] = Listed(e, x)
      BY <1>10, <3>1
    <3>2. PICK x \in ToSet(more[e]) : all[k] = Listed(e, x)
      BY <3>0
    <3>3. all[k].dst = e /\ all[k].hop = x
      BY <3>2 DEF Listed
    <3> QED BY <2>2, <3>2, <3>3 DEF Holds
  <2>3. ASSUME Holds(more, d, h)
        PROVE  \E k \in 1 .. Len(all) : all[k].dst = d /\ all[k].hop = h
    <3>1. PICK x : x = Listed(d, h)
      OBVIOUS
    <3>2. x \in ToSet(all) /\ x.dst = d /\ x.hop = h
      BY <1>10, <2>3, <3>1 DEF Holds, Listed
    <3> QED BY <2>1, <3>2
  <2> QED BY <2>2, <2>3
<1>12. /\ WellGrouped(AddAll(g, all))
       /\ \A d, h : Holds(AddAll(g, all), d, h)
                    <=> \/ Holds(g, d, h)
                        \/ \E k \in 1 .. Len(all) : all[k].dst = d /\ all[k].hop = h
  BY <1>9, AddAllIs
<1> QED BY <1>6, <1>11, <1>12

LEMMA CopiedRoutesAre ==
  ASSUME NEW n, WellShaped(n), NEW us \in LaneSet(n), NEW ds \in LaneSet(n), ~Denied(us),
         Lane(n, us.on).access # None, Lane(n, ds.on).access = Lane(n, us.on).access, NEW f \in Families,
         NEW pair, pair.us = us, pair.ds = ds
  PROVE  /\ Listing(n, CopiedRoutes(n, pair, f))
         /\ \A d : Lists(n, ds.on, f, d) =>
                \E c \in ToSet(CopiedRoutes(n, pair, f)) :
                    /\ c.op = "route" /\ c.fam = f
                    /\ c.table = us.table /\ c.dst = d /\ Parsed(c)
<1>0. ds.on \in Interfaces(n)
  BY LaneFacts
<1>1. PICK l : l = ListedRoutes(n, ds.on, f)
  OBVIOUS
<1>2. PICK g : g = Merged(ds.groups[f], l)
  OBVIOUS
<1>3. /\ WellGrouped(g)
      /\ \A d, h : Holds(g, d, h) <=> (Holds(ds.groups[f], d, h) \/ Holds(l, d, h))
  <2>1. WellGrouped(ds.groups[f]) /\ WellGrouped(l)
    BY <1>0, <1>1, LaneRoutes, ListedAre
  <2> QED BY <1>2, <2>1, MergedIs
<1>4. PICK s : s = InSomeOrder(DOMAIN g \ {Default})
  OBVIOUS
<1>5. IsSequence(s) /\ ToSet(s) = DOMAIN g \ {Default}
  <2>1. IsFiniteSet(DOMAIN g \ {Default})
    BY <1>3, FS_Subset DEF WellGrouped
  <2> QED BY <1>4, <2>1, InSomeOrderIs
<1>6. /\ DOMAIN s = 1 .. Len(s) /\ Len(s) \in Nat
      /\ \A d : (d \in DOMAIN g /\ d # Default) <=> \E k \in 1 .. Len(s) : s[k] = d
  BY <1>5, ListIs
<1> DEFINE route(d, h) == Route(f, us.table, d, {Printed(h)})
<1>7. PICK ss : ss = [k \in 1 .. Len(s) |-> [i \in 1 .. Len(g[s[k]]) |-> route(s[k], g[s[k]][i])]]
  OBVIOUS
<1>8. PICK all : all = Concat(ss)
  OBVIOUS
<1>9. CopiedRoutes(n, pair, f) = all
  BY <1>1, <1>2, <1>4, <1>7, <1>8 DEF CopiedRoutes
<1> HIDE DEF route
<1>10. IsSequence(ss) /\ Len(ss) = Len(s)
  <2>1. ss = [k \in DOMAIN s |-> ss[k]] /\ DOMAIN ss = DOMAIN s
    BY <1>6, <1>7
  <2>2. IsSequence(ss)
    BY <1>5, <2>1, EachIs
  <2> QED BY <1>6, <2>1, <2>2 DEF IsSequence
<1>11. ASSUME NEW k \in 1 .. Len(s)
       PROVE  /\ IsSequence(ss[k])
              /\ \A x : x \in ToSet(ss[k]) <=> \E h \in ToSet(g[s[k]]) : x = route(s[k], h)
  <2>1. PICK d, b : d = s[k] /\ b = g[d]
    OBVIOUS
  <2>2. IsSequence(b)
    BY <1>3, <1>6, <2>1 DEF WellGrouped
  <2>3. PICK e : e = [i \in 1 .. Len(b) |-> route(d, b[i])]
    OBVIOUS
  <2>4. ss[k] = e
    BY <1>7, <2>1, <2>3
  <2>5. DOMAIN b = 1 .. Len(b) /\ \A h : h \in ToSet(b) <=> \E i \in 1 .. Len(b) : b[i] = h
    BY <2>2, ListIs
  <2>6. e = [i \in DOMAIN b |-> e[i]] /\ \A i \in 1 .. Len(b) : e[i] = route(d, b[i])
    BY <2>3, <2>5
  <2>7. IsSequence(e) /\ \A x : x \in ToSet(e) <=> \E i \in 1 .. Len(b) : x = e[i]
    BY <2>2, <2>6, EachIs, SMTT(30)
  <2>8. \A x : x \in ToSet(e) <=> \E h \in ToSet(b) : x = route(d, h)
    BY <2>5, <2>6, <2>7
  <2> QED BY <2>1, <2>4, <2>7, <2>8
<1>12. /\ IsSequence(all)
       /\ \A x : x \in ToSet(all) <=> \E k \in 1 .. Len(s) : x \in ToSet(ss[k])
  <2>1. \A k \in 1 .. Len(ss) : IsSequence(ss[k])
    BY <1>10, <1>11
  <2>2. /\ IsSequence(Concat(ss))
        /\ \A x : x \in ToSet(Concat(ss)) <=> \E k \in 1 .. Len(ss) : x \in ToSet(ss[k])
    BY ONLY <1>10, <2>1, ConcatIs
  <2> QED BY <1>8, <1>10, <2>2
<1>13. ASSUME NEW x
       PROVE  x \in ToSet(all) <=> \E d, h : d # Default /\ Holds(g, d, h) /\ x = route(d, h)
  <2>1. \A k \in 1 .. Len(s) : x \in ToSet(ss[k]) <=> \E h \in ToSet(g[s[k]]) : x = route(s[k], h)
    BY <1>11
  <2>2. x \in ToSet(all) <=> \E k \in 1 .. Len(s) : \E h \in ToSet(g[s[k]]) : x = route(s[k], h)
    BY <1>12, <2>1
  <2>3. x \in ToSet(all) => \E d, h : d # Default /\ Holds(g, d, h) /\ x = route(d, h)
    BY <1>6, <2>2 DEF Holds
  <2>4. ASSUME NEW d, NEW h, d # Default, Holds(g, d, h), x = route(d, h) PROVE x \in ToSet(all)
    <3>1. PICK k \in 1 .. Len(s) : s[k] = d
      BY <1>6, <2>4 DEF Holds
    <3>2. h \in ToSet(g[s[k]])
      BY <2>4, <3>1 DEF Holds
    <3> QED BY <2>2, <2>4, <3>1, <3>2
  <2> QED BY <2>3, <2>4
<1>14. ASSUME NEW c \in ToSet(all) PROVE CommandOf(n, c)
  <2>1. PICK d, h : d # Default /\ Holds(g, d, h) /\ c = route(d, h)
    BY <1>13
  <2>2. c.op = "route" /\ c.fam = f /\ c.table = us.table /\ c.dst = d /\ c.hops = {Printed(h)}
    BY <2>1 DEF route, Route
  <2>3. Holds(ds.groups[f], d, h) \/ (Lists(n, ds.on, f, d) /\ h.dev = ds.on)
    BY <1>0, <1>1, <1>3, <2>1, ListedAre
  <2>4. Copying(n, us, c)
    BY <2>1, <2>2, <2>3 DEF Copying
  <2> QED BY <2>2, <2>4 DEF CommandOf, RouteOf
<1>15. ASSUME NEW d, Lists(n, ds.on, f, d)
       PROVE  \E c \in ToSet(all) : /\ c.op = "route" /\ c.fam = f
                                    /\ c.table = us.table /\ c.dst = d /\ Parsed(c)
  <2>1. PICK h : Holds(l, d, h)
    BY <1>0, <1>1, <1>15, ListedAre
  <2>2. d # Default /\ h.via # Garbled /\ h.via # OnLink
    BY <1>0, <1>1, <1>15, <2>1, ListedAre DEF Lists
  <2>3. Printed(h) = h
    BY <2>2 DEF Printed
  <2>4. PICK c : c = route(d, h)
    OBVIOUS
  <2>5. c.op = "route" /\ c.fam = f /\ c.table = us.table /\ c.dst = d /\ c.hops = {Printed(h)}
    BY <2>4 DEF route, Route
  <2>6. Parsed(c)
    BY <2>2, <2>3, <2>5 DEF Parsed
  <2>7. c \in ToSet(all)
    BY <1>3, <1>13, <2>1, <2>2, <2>4
  <2> QED BY <2>5, <2>6, <2>7
<1> QED BY <1>9, <1>12, <1>14, <1>15 DEF Listing

LEMMA AugmentationIs ==
  ASSUME NEW n, WellShaped(n), NEW us \in LaneSet(n), NEW ds \in LaneSet(n), ~Denied(us),
         Lane(n, us.on).access # None, Lane(n, ds.on).access = Lane(n, us.on).access, NEW pair, pair.us = us, pair.ds = ds
  PROVE  /\ Listing(n, Augmentation(n, pair))
         /\ \A f \in Families : \A d : Lists(n, ds.on, f, d) =>
                \E c \in ToSet(Augmentation(n, pair)) :
                    /\ c.op = "route" /\ c.fam = f
                    /\ c.table = us.table /\ c.dst = d /\ Parsed(c)
<1>0. 4 \in Families /\ 6 \in Families /\ \A f \in Families : f = 4 \/ f = 6
  BY DEF Families
<1>1. PICK a, b, x, y : /\ a = CopiedRoutes(n, pair, 4) /\ b = CopiedRoutes(n, pair, 6)
                        /\ x = ConnectedSubnet(n, pair, 4) /\ y = ConnectedSubnet(n, pair, 6)
  OBVIOUS
<1>2. ASSUME NEW f \in Families PROVE Listing(n, ConnectedSubnet(n, pair, f))
  <2>1. PICK c : c = Route(f, us.table, n.ifs[ds.on].net[f], {Hop(ds.on, ds.on)})
    OBVIOUS
  <2>2. /\ c.op = "route" /\ c.fam = f /\ c.table = us.table
        /\ c.dst = n.ifs[ds.on].net[f] /\ c.hops = {Hop(ds.on, ds.on)}
    BY <2>1 DEF Route
  <2>3. HasSubnet(n, ds.on, f) => Copying(n, us, c)
    BY <2>2 DEF Copying
  <2>4. HasSubnet(n, ds.on, f) => CommandOf(n, c)
    BY <2>2, <2>3 DEF CommandOf, RouteOf
  <2>5. IsSequence(<<c>>) /\ ToSet(<<c>>) = {c}
    BY Spelled
  <2>6. HasSubnet(n, ds.on, f) => Listing(n, <<c>>)
    BY <2>4, <2>5 DEF Listing
  <2>7. ConnectedSubnet(n, pair, f) = IF HasSubnet(n, ds.on, f) THEN <<c>> ELSE <<>>
    BY <2>1 DEF ConnectedSubnet
  <2> QED BY <2>6, <2>7, ListingNone
<1>3. Listing(n, a) /\ Listing(n, b) /\ Listing(n, x) /\ Listing(n, y)
  BY <1>0, <1>1, <1>2, CopiedRoutesAre
<1>4. PICK ab, abx, abxy : Joined(a, b, ab) /\ Joined(ab, x, abx) /\ Joined(abx, y, abxy)
  BY DEF Joined
<1>5. Listing(n, ab) /\ ToSet(ab) = ToSet(a) \cup ToSet(b)
  BY <1>3, <1>4, ListingJoined
<1>6. Listing(n, abx) /\ ToSet(abx) = ToSet(ab) \cup ToSet(x)
  BY <1>3, <1>4, <1>5, ListingJoined
<1>7. Listing(n, abxy) /\ ToSet(abxy) = ToSet(abx) \cup ToSet(y)
  BY <1>3, <1>4, <1>6, ListingJoined
<1>8. Augmentation(n, pair) = abxy
  BY <1>1, <1>4 DEF Augmentation, Joined
<1>10. ToSet(CopiedRoutes(n, pair, 4)) \cup ToSet(CopiedRoutes(n, pair, 6))
       \subseteq ToSet(Augmentation(n, pair))
  BY <1>1, <1>5, <1>6, <1>7, <1>8
<1>11. ASSUME NEW f \in Families, NEW d, Lists(n, ds.on, f, d)
       PROVE  \E c \in ToSet(Augmentation(n, pair)) :
                  /\ c.op = "route" /\ c.fam = f
                  /\ c.table = us.table /\ c.dst = d /\ Parsed(c)
  <2>1. PICK c \in ToSet(CopiedRoutes(n, pair, f)) :
            /\ c.op = "route" /\ c.fam = f
            /\ c.table = us.table /\ c.dst = d /\ Parsed(c)
    BY <1>11, CopiedRoutesAre
  <2> QED BY <1>0, <1>10, <2>1
<1> QED BY <1>7, <1>8, <1>11
----------------------------------------------------------------------------
\* A list of routes of the main table.
LEMMA MainList ==
  ASSUME NEW n, NEW s, IsSequence(s), NEW e, e = [k \in 1 .. Len(s) |-> e[k]], NEW f \in Families,
         \A k \in 1 .. Len(s) : \E d, hops : e[k] = Route(f, Main, d, hops)
  PROVE  Listing(n, e)
<1>1. DOMAIN s = 1 .. Len(s)
  BY ListIs
<1>2. e = [k \in DOMAIN s |-> e[k]]
  BY <1>1
<1>3. IsSequence(e) /\ \A x : x \in ToSet(e) <=> \E k \in 1 .. Len(s) : x = e[k]
  BY <1>2, EachIs
<1>4. ASSUME NEW c \in ToSet(e) PROVE CommandOf(n, c)
  <2>1. PICK d, hops : c = Route(f, Main, d, hops)
    BY <1>3
  <2>2. c.op = "route" /\ c.fam = f /\ c.table = Main
    BY <2>1 DEF Route
  <2> QED BY <2>2 DEF CommandOf, RouteOf
<1> QED BY <1>3, <1>4 DEF Listing

LEMMA ConnectedAre ==
  ASSUME NEW n, WellShaped(n), NEW f \in Families
  PROVE  Listing(n, ConnectedRoutes(n, f))
<1> DEFINE S == {i \in Interfaces(n) : HasSubnet(n, i, f)}
<1>1. IsFiniteSet(S)
  BY InterfacesAre, FS_Subset
<1>2. PICK s : s = InSomeOrder(S)
  OBVIOUS
<1>3. IsSequence(s)
  BY <1>1, <1>2, InSomeOrderIs
<1>4. PICK e : e = [k \in 1 .. Len(s) |->
                       Route(f, Main, n.ifs[s[k]].net[f], {Hop(OnLink, s[k])})]
  OBVIOUS
<1>5. ConnectedRoutes(n, f) = e
  BY <1>2, <1>4 DEF ConnectedRoutes
<1>6. e = [k \in 1 .. Len(s) |-> e[k]]
      /\ \A k \in 1 .. Len(s) : \E d, hops : e[k] = Route(f, Main, d, hops)
  BY <1>4
<1> QED BY <1>3, <1>5, <1>6, MainList

LEMMA GroupRoutesAre ==
  ASSUME NEW n, NEW g, WellGrouped(g), NEW f \in Families
  PROVE  Listing(n, GroupRoutes(g, f))
<1> DEFINE S == {d \in DOMAIN g : Len(g[d]) = 1}
<1>1. IsFiniteSet(S)
  BY FS_Subset DEF WellGrouped
<1>2. PICK s : s = InSomeOrder(S)
  OBVIOUS
<1>3. IsSequence(s)
  BY <1>1, <1>2, InSomeOrderIs
<1>4. PICK e : e = [k \in 1 .. Len(s) |-> Route(f, Main, s[k], ToSet(g[s[k]]))]
  OBVIOUS
<1>5. GroupRoutes(g, f) = e
  BY <1>2, <1>4 DEF GroupRoutes
<1>6. e = [k \in 1 .. Len(s) |-> e[k]]
      /\ \A k \in 1 .. Len(s) : \E d, hops : e[k] = Route(f, Main, d, hops)
  BY <1>4
<1> QED BY <1>3, <1>5, <1>6, MainList

LEMMA ChainGroups ==
  ASSUME NEW n, WellShaped(n)
  PROVE  WellGrouped(ChainDefaults(n))
<1> DEFINE toward(r) == n.ifs[r.to].name
                        = IF n.role = "downstream-selector" THEN "policy" ELSE "core"
           via(r) == Peer(n, IF n.role = "downstream-selector" THEN r.from ELSE r.to, 4)
           T == {r \in ToSet(n.forwarding) : r.logical /\ toward(r) /\ via(r) # OnLink}
<1>1. PICK s : s = Keep(n.forwarding, T)
  OBVIOUS
<1>2. IsSequence(s)
  BY <1>1, KeepIs DEF WellShaped
<1>3. PICK e : e = [k \in 1 .. Len(s) |-> Listed(Default, Hop(via(s[k]), s[k].to))]
  OBVIOUS
<1>4. ChainDefaults(n) = AddAll(NoGroups, e)
  BY <1>1, <1>3 DEF ChainDefaults
<1>5. e = [k \in DOMAIN s |-> e[k]]
  BY <1>2, <1>3, ListIs
<1>6. IsSequence(e)
  BY <1>2, <1>5, EachIs
<1> QED BY <1>4, <1>6, NoGroupsIs, AddAllIs

LEMMA DefaultsAre ==
  ASSUME NEW n, WellShaped(n), NEW f \in Families
  PROVE  Listing(n, DefaultRoutes(n, f))
<1>1. PICK given : given = Grouped(n, f, {r \in ToSet(Routes(n, f)) : MainDefault(n, r)})
  OBVIOUS
<1>2. WellGrouped(given) /\ WellGrouped(ChainDefaults(n))
  BY <1>1, GroupedIs, ChainGroups
<1>3. PICK g : g = IF Selector(n) /\ f = 4 /\ given = NoGroups THEN ChainDefaults(n) ELSE given
  OBVIOUS
<1>4. DefaultRoutes(n, f) = GroupRoutes(g, f)
  BY <1>1, <1>3 DEF DefaultRoutes
<1>5. WellGrouped(g)
  BY <1>2, <1>3
<1> QED BY <1>4, <1>5, GroupRoutesAre

LEMMA StaticsAre ==
  ASSUME NEW n, WellShaped(n), NEW f \in Families
  PROVE  Listing(n, StaticRoutes(n, f))
<1>1. PICK g : g = Grouped(n, f, {r \in ToSet(Routes(n, f)) : Static(n, f, r)})
  OBVIOUS
<1> QED BY <1>1, GroupedIs, GroupRoutesAre DEF StaticRoutes

LEMMA UplinksAre ==
  ASSUME NEW n, WellShaped(n), NEW f \in Families
  PROVE  Listing(n, UplinkRoutes(n, f))
<1> DEFINE usable(r) == /\ r.route.proto = "uplink"
                        /\ EffectiveVia(n, r.on, r.route, f) # OnLink
           T == {r \in ToSet(Routes(n, f)) : usable(r)}
<1>1. PICK s : s = Keep(Routes(n, f), T)
  OBVIOUS
<1>2. IsSequence(s)
  BY <1>1, RoutesAre, KeepIs
<1>3. PICK e : e = [k \in 1 .. Len(s) |->
                       Route(f, Main, s[k].route.dst,
                             {Hop(EffectiveVia(n, s[k].on, s[k].route, f), s[k].on)})]
  OBVIOUS
<1>4. UplinkRoutes(n, f) = e
  BY <1>1, <1>3 DEF UplinkRoutes
<1>5. e = [k \in 1 .. Len(s) |-> e[k]]
      /\ \A k \in 1 .. Len(s) : \E d, hops : e[k] = Route(f, Main, d, hops)
  BY <1>3
<1> QED BY <1>2, <1>4, <1>5, MainList

\* What the first and the last phase emit.
MainCommands(n) == ConnectedRoutes(n, 4) \o ConnectedRoutes(n, 6)
                   \o StaticRoutes(n, 4) \o StaticRoutes(n, 6)
                   \o DefaultRoutes(n, 4) \o DefaultRoutes(n, 6)
UplinkCommands(n) == IF n.bgp THEN UplinkRoutes(n, 4) \o UplinkRoutes(n, 6) ELSE <<>>

LEMMA MainCommandsAre ==
  ASSUME NEW n, WellShaped(n)
  PROVE  Listing(n, MainCommands(n))
<1>1. PICK a, b, c, d, x, y :
          /\ a = ConnectedRoutes(n, 4) /\ b = ConnectedRoutes(n, 6)
          /\ c = StaticRoutes(n, 4) /\ d = StaticRoutes(n, 6)
          /\ x = DefaultRoutes(n, 4) /\ y = DefaultRoutes(n, 6)
  OBVIOUS
<1>2. /\ Listing(n, a) /\ Listing(n, b) /\ Listing(n, c)
      /\ Listing(n, d) /\ Listing(n, x) /\ Listing(n, y)
  BY <1>1, ConnectedAre, StaticsAre, DefaultsAre DEF Families
<1>3. PICK u, v, w : Joined(a, b, u) /\ Joined(u, c, v) /\ Joined(v, d, w)
  BY DEF Joined
<1>4. PICK p, q : Joined(w, x, p) /\ Joined(p, y, q)
  BY DEF Joined
<1>5. Listing(n, u)
  BY <1>2, <1>3, ListingJoined
<1>6. Listing(n, v)
  BY <1>2, <1>3, <1>5, ListingJoined
<1>7. Listing(n, w)
  BY <1>2, <1>3, <1>6, ListingJoined
<1>8. Listing(n, p)
  BY <1>2, <1>4, <1>7, ListingJoined
<1>9. Listing(n, q)
  BY <1>2, <1>4, <1>8, ListingJoined
<1>10. q = MainCommands(n)
  BY <1>1, <1>3, <1>4 DEF Joined, MainCommands
<1> QED BY <1>9, <1>10

LEMMA UplinkCommandsAre ==
  ASSUME NEW n, WellShaped(n)
  PROVE  Listing(n, UplinkCommands(n))
<1>1. PICK a, b, u : a = UplinkRoutes(n, 4) /\ b = UplinkRoutes(n, 6) /\ Joined(a, b, u)
  BY DEF Joined
<1>2. Listing(n, a) /\ Listing(n, b)
  BY <1>1, UplinksAre DEF Families
<1>3. Listing(n, u)
  BY <1>1, <1>2, ListingJoined
<1> QED BY <1>1, <1>3, ListingNone DEF UplinkCommands, Joined

LEMMA RelationRulesAre ==
  ASSUME NEW n, WellShaped(n)
  PROVE  /\ Listing(n, RelationRules(n))
         /\ \A s \in ToSet(n.selectors) :
                Rule(s.fam, s.src, s.dst, s.incoming, s.priority, s.table, FALSE)
                \in ToSet(RelationRules(n))
<1> DEFINE rule(s) == Rule(s.fam, s.src, s.dst, s.incoming, s.priority, s.table, FALSE)
<1>1. PICK q : q = n.selectors
  OBVIOUS
<1>2. IsSequence(q) /\ \A s \in ToSet(q) : s.fam \in Families
  BY <1>1 DEF WellShaped
<1>3. PICK e : e = [k \in 1 .. Len(q) |-> rule(q[k])]
  OBVIOUS
<1>4. RelationRules(n) = e
  BY <1>1, <1>3 DEF RelationRules
<1>5. e = [k \in DOMAIN q |-> e[k]]
  BY <1>2, <1>3, ListIs
<1>6. IsSequence(e) /\ \A x : x \in ToSet(e) <=> \E k \in 1 .. Len(q) : x = e[k]
  BY <1>2, <1>5, EachIs
<1>7. \A s : s \in ToSet(q) <=> \E k \in 1 .. Len(q) : q[k] = s
  BY <1>2, ListIs
<1>8. \A k \in 1 .. Len(q) : e[k] = rule(q[k])
  BY <1>3
<1>9. ASSUME NEW c \in ToSet(e) PROVE CommandOf(n, c)
  <2>0. PICK k \in 1 .. Len(q) : c = e[k]
    BY <1>6
  <2>1. PICK s \in ToSet(q) : c = rule(s)
    BY <1>7, <1>8, <2>0
  <2>2. c.op = "rule" /\ c.fam = s.fam
    BY <2>1 DEF Rule
  <2>3. Selecting(n, c)
    BY <1>1, <2>1 DEF Selecting
  <2> QED BY <1>2, <2>2, <2>3 DEF CommandOf, RuleOf
<1>10. \A s \in ToSet(q) : rule(s) \in ToSet(e)
  BY <1>6, <1>7, <1>8
<1> QED BY <1>1, <1>4, <1>6, <1>9, <1>10 DEF Listing
----------------------------------------------------------------------------
(***************************************************************************)
(* What a command does to the kernel.                                      *)
(***************************************************************************)

Shaped(k) == k = [routes |-> k.routes, rules |-> k.rules]

\* A kernel that some commands made.
KernelOf(k, commands) ==
    /\ DOMAIN k = Families
    /\ \A f \in Families :
           /\ Shaped(k[f])
           /\ k[f].rules \in Seq({c \in commands : c.fam = f /\ c.op # "route"})
           /\ \A r \in k[f].routes :
                  \E c \in commands :
                      /\ c.op = "route" /\ c.fam = f /\ Parsed(c)
                      /\ r.table = c.table /\ r.dst = c.dst /\ r.hops = c.hops

\* What is left of a command that was run.
InForce(k, c) ==
    /\ c.op # "route" => c \in ToSet(k[c.fam].rules)
    /\ (c.op = "route" /\ Parsed(c)) =>
           \E r \in k[c.fam].routes : r.table = c.table /\ r.dst = c.dst

LEMMA EmptyKernelFits ==
  ASSUME NEW commands
  PROVE  KernelOf(EmptyKernel, commands)
<1>1. DOMAIN EmptyKernel = Families
  BY DEF EmptyKernel
<1>2. ASSUME NEW f \in Families
      PROVE  EmptyKernel[f] = [routes |-> {}, rules |-> <<>>]
  BY DEF EmptyKernel
<1>3. ASSUME NEW f \in Families
      PROVE  /\ Shaped(EmptyKernel[f])
             /\ EmptyKernel[f].rules \in Seq({c \in commands : c.fam = f /\ c.op # "route"})
             /\ EmptyKernel[f].routes = {}
  <2>1. EmptyKernel[f].routes = {} /\ EmptyKernel[f].rules = <<>>
    BY <1>2
  <2> QED BY <1>2, <2>1 DEF Shaped
<1> QED BY <1>1, <1>3 DEF KernelOf

\* A route is replaced, or its command is not understood.
Replaced(k, c, next) ==
    /\ Shaped(next)
    /\ next.rules = k.rules
    /\ \A r \in next.routes :
           r \in k.routes
           \/ (Parsed(c) /\ r.table = c.table /\ r.dst = c.dst /\ r.hops = c.hops)
    /\ Parsed(c) => \E r \in next.routes : r.table = c.table /\ r.dst = c.dst
    /\ \A r \in k.routes : \E q \in next.routes : q.table = r.table /\ q.dst = r.dst

LEMMA ReplaceIs ==
  ASSUME NEW k, Shaped(k), NEW c,
         NEW next, next = ReplaceRoute(k, c)
  PROVE  Replaced(k, c, next)
<1> DEFINE kept == {r \in k.routes : <<r.table, r.dst>> # <<c.table, c.dst>>}
<1>1. PICK new : new = [table |-> c.table, dst |-> c.dst, hops |-> c.hops]
  OBVIOUS
<1>2. new.table = c.table /\ new.dst = c.dst /\ new.hops = c.hops
  BY <1>1
<1>3. CASE ~Parsed(c)
  <2>1. next = k
    BY <1>3 DEF ReplaceRoute, Parsed
  <2> QED BY <1>3, <2>1 DEF Replaced
<1>4. CASE Parsed(c)
  <2>1. next = [routes |-> kept \cup {new}, rules |-> k.rules]
    BY <1>1, <1>4 DEF ReplaceRoute, Parsed
  <2>2. next.routes = kept \cup {new} /\ next.rules = k.rules
    BY <2>1
  <2>3. Shaped(next)
    BY <2>1, <2>2 DEF Shaped
  <2>4. ASSUME NEW r \in k.routes
        PROVE  \E q \in next.routes : q.table = r.table /\ q.dst = r.dst
    <3>1. CASE r \in kept
      BY <2>2, <3>1
    <3>2. CASE r \notin kept
      <4>1. r.table = c.table /\ r.dst = c.dst
        BY <3>2
      <4> QED BY <1>2, <2>2, <4>1
    <3> QED BY <3>1, <3>2
  <2>5. new \in next.routes
    BY <2>2
  <2>6. \A r \in next.routes : r \in k.routes \/ r = new
    BY <2>2
  <2> QED BY <1>2, <1>4, <2>2, <2>3, <2>4, <2>5, <2>6 DEF Replaced
<1> QED BY <1>3, <1>4

LEMMA AddRuleIs ==
  ASSUME NEW k, Shaped(k), NEW U, k.rules \in Seq(U),
         NEW c \in U, NEW next, next = AddRule(k, c)
  PROVE  /\ Shaped(next)
         /\ next.routes = k.routes
         /\ next.rules \in Seq(U)
         /\ ToSet(next.rules) = ToSet(k.rules) \cup {c}
<1>1. PICK s : s = k.rules /\ s \in Seq(U)
  OBVIOUS
<1>2. IsSequence(s)
  BY <1>1, SequenceIs
<1>3. CASE Contains(s, c)
  <2>1. next = k
    BY <1>1, <1>3 DEF AddRule
  <2>2. c \in ToSet(s)
    BY <1>2, <1>3, ListIs DEF Contains
  <2> QED BY <1>1, <2>1, <2>2
<1>4. CASE ~Contains(s, c)
  <2>1. next = [routes |-> k.routes, rules |-> Append(s, c)]
    BY <1>1, <1>4 DEF AddRule
  <2>2. next.routes = k.routes /\ next.rules = Append(s, c)
    BY <2>1
  <2>3. Append(s, c) \in Seq(U)
    BY <1>1
  <2>4. ToSet(Append(s, c)) = ToSet(s) \cup {c}
    BY <1>2, AppendIs
  <2> QED BY <1>1, <2>1, <2>2, <2>3, <2>4 DEF Shaped
<1> QED BY <1>3, <1>4

LEMMA ExecuteIs ==
  ASSUME NEW commands, NEW c \in commands, c.fam \in Families, NEW k, KernelOf(k, commands),
         NEW next, next = Execute(k, c)
  PROVE  /\ KernelOf(next, commands)
         /\ InForce(next, c)
         /\ \A d : d.fam \in Families /\ InForce(k, d) => InForce(next, d)
<1> DEFINE Rules(f) == {d \in commands : d.fam = f /\ d.op # "route"}
<1>1. PICK f \in Families : f = c.fam
  OBVIOUS
<1>2. PICK x : x = k[f]
  OBVIOUS
<1>3. PICK y : y = IF c.op = "route" THEN ReplaceRoute(x, c) ELSE AddRule(x, c)
  OBVIOUS
<1>4. DOMAIN k = Families
  BY DEF KernelOf
<1>5. DOMAIN next = Families /\ next[f] = y /\ \A g \in Families : g # f => next[g] = k[g]
  BY <1>1, <1>2, <1>3, <1>4 DEF Execute
<1>6. /\ Shaped(x)
      /\ x.rules \in Seq(Rules(f))
      /\ \A r \in x.routes :
             \E d \in commands :
                 /\ d.op = "route" /\ d.fam = f /\ Parsed(d)
                 /\ r.table = d.table /\ r.dst = d.dst /\ r.hops = d.hops
  BY <1>2 DEF KernelOf
<1>7. /\ Shaped(y)
      /\ y.rules \in Seq(Rules(f))
      /\ ToSet(x.rules) \subseteq ToSet(y.rules)
      /\ c.op # "route" => c \in ToSet(y.rules)
      /\ \A r \in y.routes : r \in x.routes
             \/ (c.op = "route" /\ Parsed(c) /\ r.table = c.table /\ r.dst = c.dst /\ r.hops = c.hops)
      /\ (c.op = "route" /\ Parsed(c)) => \E r \in y.routes : r.table = c.table /\ r.dst = c.dst
      /\ \A r \in x.routes : \E q \in y.routes : q.table = r.table /\ q.dst = r.dst
  <2>1. CASE c.op = "route"
    <3>1. y = ReplaceRoute(x, c)
      BY <1>3, <2>1
    <3>2. Shaped(x)
      BY <1>6
    <3>3. Replaced(x, c, y)
      BY ONLY <3>1, <3>2, ReplaceIs, Zenon
    <3>4. y.rules \in Seq(Rules(f)) /\ ToSet(x.rules) \subseteq ToSet(y.rules)
      BY <1>6, <3>3 DEF Replaced
    <3> QED BY <2>1, <3>3, <3>4 DEF Replaced
  <2>2. CASE c.op # "route"
    <3>1. y = AddRule(x, c)
      BY <1>3, <2>2
    <3>2. PICK U : U = Rules(f)
      OBVIOUS
    <3>3. /\ c \in U /\ x.rules \in Seq(U)
          /\ Shaped(x)
      BY <1>1, <1>6, <2>2, <3>2
    <3>4. /\ Shaped(y)
          /\ y.routes = x.routes
          /\ y.rules \in Seq(U)
          /\ ToSet(y.rules) = ToSet(x.rules) \cup {c}
      BY ONLY <3>1, <3>3, AddRuleIs, Zenon
    <3> QED BY <2>2, <3>2, <3>4
  <2> QED BY <2>1, <2>2
<1>8. ASSUME NEW r \in y.routes
      PROVE  \E d \in commands :
                 /\ d.op = "route" /\ d.fam = f /\ Parsed(d)
                 /\ r.table = d.table /\ r.dst = d.dst /\ r.hops = d.hops
  <2>1. r \in x.routes
        \/ (c.op = "route" /\ Parsed(c) /\ r.table = c.table /\ r.dst = c.dst /\ r.hops = c.hops)
    BY <1>7
  <2> QED BY <1>1, <1>6, <2>1
<1>9. ASSUME NEW g \in Families
      PROVE  /\ Shaped(next[g])
             /\ next[g].rules \in Seq(Rules(g))
             /\ \A r \in next[g].routes :
                    \E d \in commands :
                        /\ d.op = "route" /\ d.fam = g /\ Parsed(d)
                        /\ r.table = d.table /\ r.dst = d.dst /\ r.hops = d.hops
  <2>1. CASE g = f
    BY <1>5, <1>7, <1>8, <2>1
  <2>2. CASE g # f
    <3>1. next[g] = k[g]
      BY <1>5, <2>2
    <3>2. /\ Shaped(k[g])
          /\ k[g].rules \in Seq(Rules(g))
          /\ \A r \in k[g].routes :
                 \E d \in commands :
                     /\ d.op = "route" /\ d.fam = g /\ Parsed(d)
                     /\ r.table = d.table /\ r.dst = d.dst /\ r.hops = d.hops
      BY DEF KernelOf
    <3> QED BY <3>1, <3>2
  <2> QED BY <2>1, <2>2
<1>10. KernelOf(next, commands)
  BY <1>5, <1>9 DEF KernelOf
<1>11. InForce(next, c)
  BY <1>1, <1>5, <1>7 DEF InForce
<1>12. ASSUME NEW d, d.fam \in Families, InForce(k, d) PROVE InForce(next, d)
  <2>1. CASE d.fam # f
    BY <1>5, <1>12, <2>1 DEF InForce
  <2>2. CASE d.fam = f
    BY <1>2, <1>5, <1>7, <1>12, <2>2 DEF InForce
  <2> QED BY <2>1, <2>2
<1> QED BY <1>10, <1>11, <1>12
----------------------------------------------------------------------------
(***************************************************************************)
(* The inductive invariant: what each loop has done so far, and the        *)
(* kernel.                                                                 *)
(***************************************************************************)

Stages == {"main", "relations", "collect", "tables", "shared", "cross",
           "augment", "uplinks", "validate", "deploy", "ready", "rejected"}
Deployed == {"deploy", "ready"}
AfterAugment == {"uplinks", "validate", "deploy", "ready"}
AfterCross == {"augment"} \cup AfterAugment
AfterTables == {"shared", "cross"} \cup AfterCross
AfterCollect == {"tables"} \cup AfterTables
AfterRelations == {"collect"} \cup AfterCollect

\* How far the loops are.
Collected(i) == (stage = "collect" /\ i <= at) \/ stage \in AfterCollect
Tabled(k) == (stage = "tables" /\ k <= at) \/ stage \in AfterTables
Crossed(k) == (stage = "cross" /\ k <= at) \/ stage \in AfterCross
Augmented(k) == (stage = "augment" /\ k <= at) \/ stage \in AfterAugment

Pairs == CrossPairs(node, lanes)

TypeInv ==
    /\ node \in Nodes
    /\ stage \in Stages
    /\ at \in Nat
    /\ lanes \in Seq(LaneSet(node))

RelationInv ==
    stage \in AfterRelations =>
        Relations(node) /\ ToSet(RelationRules(node)) \subseteq Commands

LaneInv ==
    \A i \in Interfaces(node) :
        (IsLane(node, i) /\ Collected(i)) =>
        Allocated(node, i) /\ LaneData(node, i) \in ToSet(lanes)

TableInv ==
    \A k \in 1 .. Len(lanes) :
        Tabled(k) => ToSet(LaneTables(node, lanes[k])) \subseteq Commands

ClaimInv ==
    /\ claimed \subseteq Commands
    /\ \A c \in claimed : c.op = "rule" /\ \E lane \in LaneSet(node) : Claiming(node, lane, c)

Claimed(pair) ==
    \A f \in Families : \A d \in DOMAIN pair.ds.groups[f] \ {Default} :
        \E c \in claimed : c.fam = f /\ c.to = d /\ c.iif = pair.us.on

CrossInv == \A k \in 1 .. Len(Pairs) : Crossed(k) => Claimed(Pairs[k])

AugmentInv ==
    \A k \in 1 .. Len(Pairs) :
        Augmented(k) => ToSet(Augmentation(node, Pairs[k])) \subseteq Commands

\* What a step leaves alone and what it advances.
Moves ==
    /\ node' = node
    /\ lanes' = lanes \/ (CollectLane /\ stage' \in {"collect", "rejected"})
    /\ \A i \in Interfaces(node) : Collected(i)' => Collected(i) \/ (CollectLane /\ i = at + 1)
    /\ \A k \in 1 .. Len(lanes) : Tabled(k)' => Tabled(k) \/ (RenderTables /\ k = at + 1)
    /\ \A k \in 1 .. Len(Pairs) : Crossed(k)' => Crossed(k) \/ (CrossLanes /\ k = at + 1)
    /\ \A k \in 1 .. Len(Pairs) : Augmented(k)' => Augmented(k) \/ (AugmentTable /\ k = at + 1)
    /\ stage' \in AfterRelations => stage \in AfterRelations \/ (RenderRelations /\ Relations(node))

LEMMA StepMoves == TypeInv /\ [Next]_vars => Moves
<1> SUFFICES ASSUME TypeInv, [Next]_vars PROVE Moves
  OBVIOUS
<1> USE DEF Moves, TypeInv, Collected, Tabled, Crossed, Augmented, Enter,
            AfterRelations, AfterCollect, AfterTables, AfterCross, AfterAugment
<1>1. CASE RenderMain
  BY <1>1 DEF RenderMain
<1>2. CASE RenderRelations
  <2>1. \A i \in Interfaces(node) : ~(i <= 0)
    BY DEF Interfaces
  <2> QED BY <1>2, <2>1 DEF RenderRelations
<1>3. CASE CollectLane
  <2>1. /\ stage = "collect" /\ node' = node
        /\ (stage' = "collect" /\ at' = at + 1) \/ stage' = "rejected"
    BY <1>3 DEF CollectLane
  <2>2. \A i \in Interfaces(node) : i <= at + 1 => i <= at \/ i = at + 1
    BY DEF Interfaces
  <2> QED BY <1>3, <2>1, <2>2
<1>4. CASE RenderTables
  <2>1. \A k \in 1 .. Len(lanes) : k <= at + 1 => k <= at \/ k = at + 1
    OBVIOUS
  <2> QED BY <1>4, <2>1 DEF RenderTables
<1>5. CASE ShareDestinations
  BY <1>5 DEF ShareDestinations
<1>6. CASE CrossLanes
  <2>1. \A k \in 1 .. Len(Pairs) : k <= at + 1 => k <= at \/ k = at + 1
    OBVIOUS
  <2> QED BY <1>6, <2>1 DEF CrossLanes
<1>7. CASE AugmentTable
  <2>1. \A k \in 1 .. Len(Pairs) : k <= at + 1 => k <= at \/ k = at + 1
    OBVIOUS
  <2> QED BY <1>7, <2>1 DEF AugmentTable
<1>8. CASE NextPhase
  <2>1. /\ node' = node /\ lanes' = lanes /\ at' = 0
        /\ \/ stage = "collect" /\ stage' = "tables" /\ at = Len(node.ifs)
           \/ stage = "tables" /\ stage' = "shared" /\ at = Len(lanes)
           \/ stage = "shared" /\ stage' = "cross"
           \/ stage = "cross" /\ stage' = "augment" /\ at = Len(Pairs)
           \/ stage = "augment" /\ stage' = "uplinks" /\ at = Len(Pairs)
    BY <1>8 DEF NextPhase, Exhausted, After, Pairs
  <2>2. /\ \A i \in Interfaces(node) : i <= Len(node.ifs)
        /\ \A k \in 1 .. Len(lanes) : k <= Len(lanes) /\ ~(k <= 0)
        /\ \A k \in 1 .. Len(Pairs) : k <= Len(Pairs) /\ ~(k <= 0)
    BY DEF Interfaces
  <2>3. CASE stage = "collect"
    BY <2>1, <2>2, <2>3
  <2>4. CASE stage = "tables"
    BY <2>1, <2>2, <2>4
  <2>5. CASE stage = "shared"
    BY <2>1, <2>2, <2>5
  <2>6. CASE stage = "cross"
    BY <2>1, <2>2, <2>6
  <2>7. CASE stage = "augment"
    BY <2>1, <2>2, <2>7
  <2> QED BY <2>1, <2>3, <2>4, <2>5, <2>6, <2>7
<1>9. CASE RenderUplinks
  BY <1>9 DEF RenderUplinks
<1>10. CASE Validate
  BY <1>10 DEF Validate
<1>11. CASE RunCommand
  BY <1>11 DEF RunCommand
<1>12. CASE Finish
  BY <1>12 DEF Finish
<1>13. CASE UNCHANGED vars
  BY <1>13 DEF vars
<1> QED BY <1>1, <1>2, <1>3, <1>4, <1>5, <1>6, <1>7, <1>8, <1>9, <1>10, <1>11,
           <1>12, <1>13 DEF Next
----------------------------------------------------------------------------
\* The commands of a step are added to those that are there.
Lengthens(more) ==
    /\ Listing(node, cmds')
    /\ Commands \subseteq Commands'
    /\ more \subseteq Commands'

LEMMA EmitIs ==
  ASSUME Listing(node, cmds), NEW more, Listing(node, more), Joined(cmds, more, cmds')
  PROVE  Lengthens(ToSet(more))
<1>1. PICK n, old, all : n = node /\ old = cmds /\ all = cmds'
  OBVIOUS
<1>2. Listing(n, old) /\ Listing(n, more) /\ Joined(old, more, all)
  BY <1>1
<1>3. Listing(n, all) /\ ToSet(all) = ToSet(old) \cup ToSet(more)
  BY ONLY <1>2, ListingJoined
<1> QED BY <1>1, <1>3 DEF Lengthens, Commands

LEMMA Shape == TypeInv => WellShaped(node)
BY NodesAssumption DEF TypeInv

LEMMA RelationsEmit ==
  ASSUME TypeInv, Listing(node, cmds), RenderRelations, Relations(node)
  PROVE  Lengthens(ToSet(RelationRules(node)))
<1>1. Joined(cmds, RelationRules(node), cmds')
  BY DEF RenderRelations, Emit, Joined
<1>2. Listing(node, RelationRules(node))
  BY Shape, RelationRulesAre
<1> QED BY <1>1, <1>2, EmitIs

LEMMA TablesEmit ==
  ASSUME TypeInv, Listing(node, cmds), RenderTables
  PROVE  /\ at + 1 \in 1 .. Len(lanes)
         /\ Lengthens(ToSet(LaneTables(node, lanes[at + 1])))
<1>1. WellShaped(node) /\ at + 1 \in 1 .. Len(lanes)
  BY Shape, LanesAre DEF TypeInv, RenderTables
<1>2. PICK lane \in LaneSet(node) : lane = lanes[at + 1]
  BY <1>1, LanesAre DEF TypeInv
<1>3. Joined(cmds, LaneTables(node, lane), cmds')
  BY <1>2 DEF RenderTables, Emit, Joined
<1>4. Listing(node, LaneTables(node, lane))
  BY <1>1, LaneTablesAre
<1>5. Lengthens(ToSet(LaneTables(node, lane)))
  BY <1>3, <1>4, EmitIs
<1> QED BY <1>1, <1>2, <1>5

\* Of every destination of a lane there is a claim on some interfaces.
Covered(claims, lane, devices) ==
    \A f \in Families : \A d \in DOMAIN lane.groups[f] \ {Default} :
        \A i \in devices : \E c \in claims : c.fam = f /\ c.to = d /\ c.iif = i

\* New claims of a lane.
LEMMA ClaimsEmit ==
  ASSUME TypeInv, Listing(node, cmds), ClaimInv,
         NEW lane \in LaneSet(node), NEW by \in LaneSet(node),
         NEW devices, Claimable(node, lane, devices), AllServed(by, devices),
         NEW new, new = NewClaims(claimed, lane, devices, by.priority, lane.table),
         claimed' = claimed \cup new, cmds' = cmds \o InSomeOrder(new), node' = node
  PROVE  Lengthens(new) /\ ClaimInv' /\ Covered(claimed', lane, devices)
<1>1. WellShaped(node)
  BY Shape
<1>2. PICK n, old : n = node /\ old = claimed
  OBVIOUS
<1>3. /\ IsFiniteSet(new)
      /\ \A c \in new : CommandOf(n, c) /\ c.op = "rule" /\ Claiming(n, lane, c)
      /\ \A f \in Families : \A d \in DOMAIN lane.groups[f] \ {Default} :
             \A i \in devices : \E c \in old \cup new : c.fam = f /\ c.to = d /\ c.iif = i
  <2>1. /\ WellShaped(n) /\ lane \in LaneSet(n) /\ by \in LaneSet(n)
        /\ Claimable(n, lane, devices) /\ AllServed(by, devices)
        /\ new = NewClaims(old, lane, devices, by.priority, lane.table)
    BY <1>1, <1>2
  <2>2. WellClaimed(n, old, lane, devices,
                    NewClaims(old, lane, devices, by.priority, lane.table))
    BY ONLY <2>1, NewClaimsAre
  <2> QED BY <2>1, <2>2 DEF WellClaimed
<1>4. PICK s : s = InSomeOrder(new)
  OBVIOUS
<1>5. IsSequence(s) /\ ToSet(s) = new
  BY <1>3, <1>4, InSomeOrderIs
<1>6. Listing(node, s)
  BY <1>2, <1>3, <1>5 DEF Listing
<1>7. Joined(cmds, s, cmds')
  BY <1>4 DEF Joined
<1>8. Lengthens(new)
  BY <1>5, <1>6, <1>7, EmitIs
<1>9. ClaimInv'
  <2>1. claimed' \subseteq Commands'
    BY <1>8 DEF Lengthens, ClaimInv
  <2>2. \A c \in claimed' : c.op = "rule" /\ \E l \in LaneSet(node) : Claiming(node, l, c)
    BY <1>2, <1>3 DEF ClaimInv
  <2> QED BY <2>1, <2>2 DEF ClaimInv
<1> QED BY <1>2, <1>3, <1>8, <1>9 DEF Covered

LEMMA ShareEmits ==
  ASSUME TypeInv, Listing(node, cmds), ClaimInv, ShareDestinations
  PROVE  Lengthens({}) /\ ClaimInv' /\ claimed \subseteq claimed'
<1>1. WellShaped(node)
  BY Shape
<1>2. PICK ls, order : ls = lanes /\ order = Descending(ls)
  OBVIOUS
<1>3. IsSequence(order) /\ ToSet(order) = DOMAIN ls /\ Len(order) = Len(ls)
  BY <1>1, <1>2, DescendingIs DEF TypeInv
<1>4. at + 1 \in 1 .. Len(ls)
  BY <1>1, <1>2, LanesAre DEF TypeInv, ShareDestinations
<1>5. order[at + 1] \in DOMAIN ls
  BY <1>3, <1>4, ListIs
<1>6. PICK lane \in LaneSet(node) : lane = ls[order[at + 1]]
  BY <1>1, <1>2, <1>5, LanesAre DEF TypeInv
<1>7. PICK devices : devices = ToSet(lane.shared)
  OBVIOUS
<1>8. Claimable(node, lane, devices) /\ AllServed(lane, devices)
  <2>1. Claimable(node, lane, devices)
    BY <1>1, <1>7, SourcesAre, FiniteList DEF Claimable
  <2>2. AllServed(lane, devices)
    BY <1>1, <1>7, SourcesAre DEF AllServed, Serves
  <2> QED BY <2>1, <2>2
<1>9. PICK new : new = NewClaims(claimed, lane, devices, lane.priority, lane.table)
  OBVIOUS
<1>10. claimed' = claimed \cup new /\ cmds' = cmds \o InSomeOrder(new) /\ node' = node
  BY <1>2, <1>6, <1>7, <1>9 DEF ShareDestinations, Emit
<1>11. Lengthens(new) /\ ClaimInv'
  BY <1>8, <1>9, <1>10, ClaimsEmit
<1> QED BY <1>10, <1>11 DEF Lengthens

LEMMA PairIs ==
  ASSUME TypeInv, NEW k \in 1 .. Len(Pairs)
  PROVE  /\ Pairs[k].us \in LaneSet(node) /\ Pairs[k].ds \in LaneSet(node)
         /\ Linked(node, Pairs[k].us, Pairs[k].ds)
<1>1. PICK ls, ps : ls = lanes /\ ps = Pairs /\ ps = CrossPairs(node, ls)
  BY DEF Pairs
<1>2. /\ IsSequence(ps)
      /\ \A p \in ToSet(ps) :
             p.us \in LaneSet(node) /\ p.ds \in LaneSet(node) /\ Linked(node, p.us, p.ds)
  BY <1>1, Shape, CrossPairsAre DEF TypeInv
<1>3. Pairs[k] \in ToSet(ps)
  BY <1>1, <1>2, ListIs
<1> QED BY <1>2, <1>3

LEMMA CrossEmits ==
  ASSUME TypeInv, Listing(node, cmds), ClaimInv, CrossLanes
  PROVE  /\ Lengthens({}) /\ ClaimInv' /\ claimed \subseteq claimed'
         /\ at + 1 \in 1 .. Len(Pairs)
         /\ \A pair : pair = Pairs[at + 1] => Claimed(pair)'
<1>1. WellShaped(node)
  BY Shape
<1>2. at + 1 \in 1 .. Len(Pairs)
  <2>1. Len(Pairs) \in Nat
    BY <1>1, CrossPairsAre, ListIs DEF Pairs, TypeInv
  <2> QED BY <2>1 DEF CrossLanes, Pairs, TypeInv
<1>3. PICK pair : pair = Pairs[at + 1]
  OBVIOUS
<1>4. PICK us \in LaneSet(node), ds \in LaneSet(node) :
          us = pair.us /\ ds = pair.ds /\ Linked(node, us, ds)
  BY <1>2, <1>3, PairIs
<1>5. PICK devices : devices = {us.on}
  OBVIOUS
<1>6. IsFiniteSet(devices)
  BY <1>5, FS_Singleton
<1>7. Claimable(node, ds, devices) /\ AllServed(us, devices)
  <2>1. Claimable(node, ds, devices)
    BY <1>1, <1>4, <1>5, <1>6, LaneFacts DEF Linked, Claimable
  <2>2. AllServed(us, devices)
    BY <1>5 DEF AllServed, Serves
  <2> QED BY <2>1, <2>2
<1>8. PICK new : new = NewClaims(claimed, ds, devices, us.priority, ds.table)
  OBVIOUS
<1>9. claimed' = claimed \cup new /\ cmds' = cmds \o InSomeOrder(new)
      /\ node' = node /\ lanes' = lanes
  BY <1>3, <1>4, <1>5, <1>8 DEF CrossLanes, Emit, Pairs
<1>10. Lengthens(new) /\ ClaimInv' /\ Covered(claimed', ds, devices)
  BY <1>7, <1>8, <1>9, ClaimsEmit
<1>11. \A f \in Families : \A d \in DOMAIN pair.ds.groups[f] \ {Default} :
           \E c \in claimed' : c.fam = f /\ c.to = d /\ c.iif = pair.us.on
  BY <1>4, <1>5, <1>10 DEF Covered
<1> QED BY <1>2, <1>3, <1>9, <1>10, <1>11 DEF Lengthens, Claimed
----------------------------------------------------------------------------
LEMMA AugmentEmits ==
  ASSUME TypeInv, Listing(node, cmds), AugmentTable
  PROVE  /\ at + 1 \in 1 .. Len(Pairs)
         /\ Lengthens(ToSet(Augmentation(node, Pairs[at + 1])))
<1>1. WellShaped(node)
  BY Shape
<1>2. at + 1 \in 1 .. Len(Pairs)
  <2>1. Len(Pairs) \in Nat
    BY <1>1, CrossPairsAre, ListIs DEF Pairs, TypeInv
  <2> QED BY <2>1 DEF AugmentTable, Pairs, TypeInv
<1>3. PICK pair : pair = Pairs[at + 1]
  OBVIOUS
<1>4. PICK us \in LaneSet(node), ds \in LaneSet(node) :
          us = pair.us /\ ds = pair.ds /\ Linked(node, us, ds)
  BY <1>2, <1>3, PairIs
<1>5. Listing(node, Augmentation(node, pair))
  <2>1. /\ ~Denied(us) /\ Lane(node, us.on).access # None
        /\ Lane(node, ds.on).access = Lane(node, us.on).access
    BY <1>4 DEF Linked
  <2> QED BY <1>1, <1>4, <2>1, AugmentationIs
<1>6. Joined(cmds, Augmentation(node, pair), cmds')
  BY <1>3 DEF AugmentTable, Emit, Joined, Pairs
<1>7. Lengthens(ToSet(Augmentation(node, pair)))
  BY <1>5, <1>6, EmitIs
<1> QED BY <1>2, <1>3, <1>7

LEMMA MainEmits ==
  ASSUME TypeInv, Listing(node, cmds), RenderMain
  PROVE  Lengthens({})
<1>1. Listing(node, MainCommands(node))
  BY Shape, MainCommandsAre
<1>2. Joined(cmds, MainCommands(node), cmds')
  BY DEF RenderMain, Emit, Joined, MainCommands
<1> QED BY <1>1, <1>2, EmitIs DEF Lengthens

LEMMA UplinksEmit ==
  ASSUME TypeInv, Listing(node, cmds), RenderUplinks
  PROVE  Lengthens({})
<1>1. Listing(node, UplinkCommands(node))
  BY Shape, UplinkCommandsAre
<1>2. Joined(cmds, UplinkCommands(node), cmds')
  BY DEF RenderUplinks, Emit, Joined, UplinkCommands
<1> QED BY <1>1, <1>2, EmitIs DEF Lengthens

\* The commands are only added to, and stay commands of the node.
ListInv == Listing(node, cmds) /\ ClaimInv

Grows == Commands \subseteq Commands' /\ claimed \subseteq claimed'

LEMMA StepGrows == TypeInv /\ ListInv /\ [Next]_vars => ListInv' /\ Grows
<1> SUFFICES ASSUME TypeInv, ListInv, [Next]_vars PROVE ListInv' /\ Grows
  OBVIOUS
<1>0. Listing(node, cmds) /\ ClaimInv
  BY DEF ListInv
<1>1. CASE RenderMain
  <2>1. Lengthens({}) /\ node' = node /\ claimed' = claimed
    BY <1>0, <1>1, MainEmits DEF RenderMain
  <2> QED BY <1>0, <2>1 DEF ListInv, ClaimInv, Grows, Lengthens
<1>2. CASE RenderRelations
  <2>1. CASE Relations(node)
    <3>1. Lengthens(ToSet(RelationRules(node))) /\ node' = node /\ claimed' = claimed
      BY <1>0, <1>2, <2>1, RelationsEmit DEF RenderRelations
    <3> QED BY <1>0, <3>1 DEF ListInv, ClaimInv, Grows, Lengthens
  <2>2. CASE ~Relations(node)
    <3>1. cmds' = cmds /\ node' = node /\ claimed' = claimed
      BY <1>2, <2>2 DEF RenderRelations
    <3> QED BY <1>0, <3>1 DEF ListInv, ClaimInv, Grows, Commands
  <2> QED BY <2>1, <2>2
<1>3. CASE RenderTables
  <2>1. Lengthens(ToSet(LaneTables(node, lanes[at + 1]))) /\ node' = node /\ claimed' = claimed
    BY <1>0, <1>3, TablesEmit DEF RenderTables
  <2> QED BY <1>0, <2>1 DEF ListInv, ClaimInv, Grows, Lengthens
<1>4. CASE ShareDestinations
  <2>1. Lengthens({}) /\ ClaimInv' /\ claimed \subseteq claimed' /\ node' = node
    BY <1>0, <1>4, ShareEmits DEF ShareDestinations
  <2> QED BY <2>1 DEF ListInv, Grows, Lengthens
<1>5. CASE CrossLanes
  <2>1. Lengthens({}) /\ ClaimInv' /\ claimed \subseteq claimed' /\ node' = node
    BY <1>0, <1>5, CrossEmits DEF CrossLanes
  <2> QED BY <2>1 DEF ListInv, Grows, Lengthens
<1>6. CASE AugmentTable
  <2>1. /\ Lengthens(ToSet(Augmentation(node, Pairs[at + 1])))
        /\ node' = node /\ claimed' = claimed
    BY <1>0, <1>6, AugmentEmits DEF AugmentTable
  <2> QED BY <1>0, <2>1 DEF ListInv, ClaimInv, Grows, Lengthens
<1>7. CASE RenderUplinks
  <2>1. Lengthens({}) /\ node' = node /\ claimed' = claimed
    BY <1>0, <1>7, UplinksEmit DEF RenderUplinks
  <2> QED BY <1>0, <2>1 DEF ListInv, ClaimInv, Grows, Lengthens
<1>8. CASE UNCHANGED <<node, claimed, cmds>>
  BY <1>0, <1>8 DEF ListInv, ClaimInv, Grows, Commands
<1> QED BY <1>1, <1>2, <1>3, <1>4, <1>5, <1>6, <1>7, <1>8
        DEF Next, vars, CollectLane, NextPhase, Validate, RunCommand, Finish
----------------------------------------------------------------------------
LEMMA TypeStep == TypeInv /\ [Next]_vars => TypeInv'
<1> SUFFICES ASSUME TypeInv, [Next]_vars PROVE TypeInv'
  OBVIOUS
<1>1. CASE RenderMain
  BY <1>1 DEF TypeInv, RenderMain, Enter, Stages
<1>2. CASE RenderRelations
  BY <1>2 DEF TypeInv, RenderRelations, Enter, Stages
<1>3. CASE CollectLane
  <2> DEFINE i == at + 1
  <2>1. i \in Interfaces(node) /\ i \in Nat
    BY <1>3, Shape, InterfacesAre DEF CollectLane, TypeInv
  <2>2. /\ node' = node
        /\ stage' \in Stages /\ at' \in Nat
        /\ lanes' = lanes \/ (/\ IsLane(node, i) /\ Allocated(node, i)
                              /\ lanes' = Append(lanes, LaneData(node, i)))
    BY <1>3, <2>1 DEF CollectLane, Enter, TypeInv, Stages
  <2>3. (IsLane(node, i) /\ Allocated(node, i)) => LaneData(node, i) \in LaneSet(node)
    BY <2>1 DEF LaneSet, LaneLinks
  <2> QED BY <2>2, <2>3 DEF TypeInv
<1>4. CASE RenderTables
  BY <1>4 DEF TypeInv, RenderTables
<1>5. CASE ShareDestinations
  BY <1>5 DEF TypeInv, ShareDestinations
<1>6. CASE CrossLanes
  BY <1>6 DEF TypeInv, CrossLanes
<1>7. CASE AugmentTable
  BY <1>7 DEF TypeInv, AugmentTable
<1>8. CASE NextPhase
  BY <1>8 DEF TypeInv, NextPhase, Exhausted, After, Enter, Stages
<1>9. CASE RenderUplinks
  BY <1>9 DEF TypeInv, RenderUplinks, Enter, Stages
<1>10. CASE Validate
  BY <1>10 DEF TypeInv, Validate, Enter, Stages
<1>11. CASE RunCommand
  BY <1>11 DEF TypeInv, RunCommand
<1>12. CASE Finish
  BY <1>12 DEF TypeInv, Finish, Enter, Stages
<1>13. CASE UNCHANGED vars
  BY <1>13 DEF TypeInv, vars
<1> QED BY <1>1, <1>2, <1>3, <1>4, <1>5, <1>6, <1>7, <1>8, <1>9, <1>10, <1>11,
           <1>12, <1>13 DEF Next

\* What the finished loops left in the commands.
LoopInv == RelationInv /\ LaneInv /\ TableInv /\ CrossInv /\ AugmentInv

LEMMA LoopStep == TypeInv /\ ListInv /\ LoopInv /\ [Next]_vars => LoopInv'
<1> SUFFICES ASSUME TypeInv, ListInv, LoopInv, [Next]_vars PROVE LoopInv'
  OBVIOUS
<1>1. Moves /\ Grows /\ Listing(node, cmds) /\ ClaimInv
  BY StepMoves, StepGrows DEF ListInv
<1>2. RelationInv'
  <2> SUFFICES ASSUME stage' \in AfterRelations
               PROVE  Relations(node) /\ ToSet(RelationRules(node)) \subseteq Commands'
    BY <1>1 DEF RelationInv, Moves
  <2>1. CASE stage \in AfterRelations
    BY <1>1, <2>1 DEF LoopInv, RelationInv, Grows
  <2>2. CASE RenderRelations /\ Relations(node)
    BY <1>1, <2>2, RelationsEmit DEF Lengthens
  <2> QED BY <1>1, <2>1, <2>2 DEF Moves
<1>3. LaneInv'
  <2> SUFFICES ASSUME NEW i \in Interfaces(node), IsLane(node, i), Collected(i)'
               PROVE  Allocated(node, i) /\ LaneData(node, i) \in ToSet(lanes')
    BY <1>1 DEF LaneInv, Moves
  <2>1. IsSequence(lanes)
    BY SequenceIs DEF TypeInv
  <2>2. ToSet(lanes) \subseteq ToSet(lanes')
    <3>1. lanes' = lanes \/ \E x : lanes' = Append(lanes, x)
      BY <1>1 DEF Moves, CollectLane
    <3>2. ASSUME NEW x, lanes' = Append(lanes, x) PROVE ToSet(lanes) \subseteq ToSet(lanes')
      BY <2>1, <3>2, AppendIs
    <3> QED BY <3>1, <3>2
  <2>3. CASE Collected(i)
    BY <2>2, <2>3 DEF LoopInv, LaneInv
  <2>4. CASE CollectLane /\ i = at + 1
    <3>1. CASE Allocated(node, i)
      <4>1. lanes' = Append(lanes, LaneData(node, i))
        BY <2>4, <3>1 DEF CollectLane
      <4> QED BY <2>1, <3>1, <4>1, AppendIs
    <3>2. CASE ~Allocated(node, i)
      <4>1. stage' = "rejected"
        BY <2>4, <3>2 DEF CollectLane, Enter
      <4> QED BY <4>1 DEF Collected, AfterCollect, AfterTables, AfterCross, AfterAugment
    <3> QED BY <3>1, <3>2
  <2> QED BY <1>1, <2>3, <2>4 DEF Moves
<1>4. CASE lanes' = lanes
  <2>1. Pairs' = Pairs
    BY <1>1, <1>4 DEF Moves, Pairs
  <2>2. TableInv'
    <3> SUFFICES ASSUME NEW k \in 1 .. Len(lanes), Tabled(k)'
                 PROVE  ToSet(LaneTables(node, lanes[k])) \subseteq Commands'
      BY <1>1, <1>4 DEF TableInv, Moves
    <3>1. CASE Tabled(k)
      BY <1>1, <3>1 DEF LoopInv, TableInv, Grows
    <3>2. CASE RenderTables /\ k = at + 1
      BY <1>1, <3>2, TablesEmit DEF Lengthens
    <3> QED BY <1>1, <3>1, <3>2 DEF Moves
  <2>3. CrossInv'
    <3> SUFFICES ASSUME NEW k \in 1 .. Len(Pairs), Crossed(k)', NEW pair, pair = Pairs[k]
                 PROVE  Claimed(pair)'
      BY <2>1 DEF CrossInv
    <3>1. CASE Crossed(k)
      BY <1>1, <3>1 DEF LoopInv, CrossInv, Claimed, Grows
    <3>2. CASE CrossLanes /\ k = at + 1
      BY <1>1, <3>2, CrossEmits
    <3> QED BY <1>1, <3>1, <3>2 DEF Moves
  <2>4. AugmentInv'
    <3> SUFFICES ASSUME NEW k \in 1 .. Len(Pairs), Augmented(k)'
                 PROVE  ToSet(Augmentation(node, Pairs[k])) \subseteq Commands'
      BY <1>1, <2>1 DEF AugmentInv, Moves
    <3>1. CASE Augmented(k)
      BY <1>1, <3>1 DEF LoopInv, AugmentInv, Grows
    <3>2. CASE AugmentTable /\ k = at + 1
      BY <1>1, <3>2, AugmentEmits DEF Lengthens
    <3> QED BY <1>1, <3>1, <3>2 DEF Moves
  <2> QED BY <1>2, <1>3, <2>2, <2>3, <2>4 DEF LoopInv
<1>5. CASE stage' \in {"collect", "rejected"}
  <2>1. TableInv' /\ CrossInv' /\ AugmentInv'
    BY <1>5 DEF TableInv, CrossInv, AugmentInv, Tabled, Crossed, Augmented,
                AfterTables, AfterCross, AfterAugment
  <2> QED BY <1>2, <1>3, <2>1 DEF LoopInv
<1> QED BY <1>1, <1>4, <1>5 DEF Moves
----------------------------------------------------------------------------
\* The kernel does not change before the deployment, nor the commands after it;
\* what a command asks for stays in force.
KernelInv ==
    /\ KernelOf(kernel, Commands)
    /\ stage \notin Deployed => kernel = EmptyKernel
    /\ stage \in Deployed => Unambiguous(Commands)
    /\ stage = "deploy" => \A j \in DOMAIN cmds : j <= at => InForce(kernel, cmds[j])
    /\ stage = "ready" => \A c \in Commands : InForce(kernel, c)

IInv == TypeInv /\ ListInv /\ LoopInv /\ KernelInv /\ ClaimedOnce

LEMMA KernelStep == TypeInv /\ ListInv /\ KernelInv /\ [Next]_vars => KernelInv'
<1> SUFFICES ASSUME TypeInv, ListInv, KernelInv, [Next]_vars PROVE KernelInv'
  OBVIOUS
<1>0. Listing(node, cmds) /\ IsSequence(cmds) /\ \A c \in Commands : c.fam \in Families
  BY DEF ListInv, Listing, CommandOf, Commands
<1> DEFINE Rendering == /\ stage \notin Deployed /\ stage' \notin Deployed
                        /\ kernel' = kernel
<1>1. CASE RunCommand
  <2>1. /\ cmds' = cmds /\ Commands' = Commands /\ stage' = "deploy" /\ stage = "deploy"
        /\ at' = at + 1 /\ at + 1 \in DOMAIN cmds
    BY <1>1 DEF RunCommand, Commands
  <2>2. PICK c, k, next : c = cmds[at + 1] /\ k = kernel /\ next = kernel' /\ next = Execute(k, c)
    BY <1>1 DEF RunCommand
  <2>3. c \in Commands /\ c.fam \in Families
    BY <1>0, <2>1, <2>2, ListIs DEF Commands
  <2>4. /\ KernelOf(next, Commands) /\ InForce(next, c)
        /\ \A d : d.fam \in Families /\ InForce(k, d) => InForce(next, d)
    <3>1. PICK commands : commands = Commands
      OBVIOUS
    <3>2. KernelOf(k, commands) /\ c \in commands /\ c.fam \in Families
      BY <2>2, <2>3, <3>1 DEF KernelInv
    <3> QED BY <2>2, <3>1, <3>2, ExecuteIs
  <2>5. ASSUME NEW j \in DOMAIN cmds, j <= at + 1 PROVE InForce(next, cmds[j])
    <3>1. j \in Nat /\ cmds[j] \in Commands
      BY <1>0, ListIs DEF Commands
    <3>2. CASE j = at + 1
      BY <2>2, <2>4, <3>2
    <3>3. CASE j # at + 1
      <4>1. j <= at
        BY <2>5, <3>1, <3>3 DEF TypeInv
      <4> QED BY <1>0, <2>1, <2>2, <2>4, <3>1, <4>1 DEF KernelInv
    <3> QED BY <3>2, <3>3
  <2> QED BY <2>1, <2>2, <2>4, <2>5 DEF KernelInv, Deployed, Unambiguous
<1>2. CASE Validate
  <2>1. /\ kernel' = kernel /\ kernel = EmptyKernel /\ Commands' = Commands
        /\ cmds' = cmds /\ at' = 0 /\ stage' # "ready"
        /\ stage' \in Deployed => Unambiguous(Commands)
    BY <1>2 DEF Validate, Enter, KernelInv, Deployed, Commands
  <2>2. \A j \in DOMAIN cmds : ~(j <= 0)
    BY <1>0, ListIs
  <2> QED BY <2>1, <2>2 DEF KernelInv, Unambiguous
<1>3. CASE Finish
  <2>1. /\ kernel' = kernel /\ Commands' = Commands
        /\ stage = "deploy" /\ stage' = "ready" /\ at + 1 \notin DOMAIN cmds
    BY <1>3 DEF Finish, Enter, Commands
  <2>2. ASSUME NEW c \in Commands PROVE InForce(kernel, c)
    <3>1. PICK j \in DOMAIN cmds : c = cmds[j] /\ j <= at
      <4>1. DOMAIN cmds = 1 .. Len(cmds) /\ Len(cmds) \in Nat
        BY <1>0, ListIs
      <4>2. PICK j \in 1 .. Len(cmds) : cmds[j] = c
        BY <1>0, ListIs DEF Commands
      <4>3. j <= at
        BY <2>1, <4>1 DEF TypeInv
      <4> QED BY <4>1, <4>2, <4>3
    <3> QED BY <2>1, <3>1 DEF KernelInv
  <2> QED BY <2>1, <2>2 DEF KernelInv, Deployed, Unambiguous
<1>4. CASE Rendering
  <2>1. kernel' = EmptyKernel
    BY <1>4 DEF KernelInv
  <2>2. KernelOf(kernel', Commands')
    BY <2>1, EmptyKernelFits
  <2> QED BY <1>4, <2>1, <2>2 DEF KernelInv, Deployed
<1>5. CASE UNCHANGED vars
  <2>1. /\ kernel' = kernel /\ Commands' = Commands /\ stage' = stage
        /\ cmds' = cmds /\ at' = at
    BY <1>5 DEF vars, Commands
  <2> QED BY <2>1 DEF KernelInv, Unambiguous
<1>6. CASE NextPhase
  BY <1>4, <1>6 DEF NextPhase, Exhausted, After, Enter, Deployed
<1>7. CASE \/ RenderMain \/ RenderRelations \/ CollectLane \/ RenderTables
           \/ ShareDestinations \/ CrossLanes \/ AugmentTable \/ RenderUplinks
  BY <1>4, <1>7 DEF RenderMain, RenderRelations, CollectLane, RenderTables,
     ShareDestinations, CrossLanes, AugmentTable, RenderUplinks, Enter, Deployed
<1> QED BY <1>1, <1>2, <1>3, <1>5, <1>6, <1>7 DEF Next

LEMMA ClaimsStaySingle ==
  ASSUME ClaimedOnce, NEW lane, NEW devices, NEW priority, NEW table,
         claimed' = claimed \cup NewClaims(claimed, lane, devices, priority, table)
  PROVE  ClaimedOnce'
<1> DEFINE new == NewClaims(claimed, lane, devices, priority, table)
<1>1. \A r, s \in new : <<r.fam, r.to, r.iif>> = <<s.fam, s.to, s.iif>> => r = s
  <2>1. \A r \in new : \E w :
            r = Rule(w[1], Default, w[2], w[3], priority, table, FALSE)
    BY DEF NewClaims
  <2>2. \A r \in new :
            r = Rule(r.fam, Default, r.to, r.iif, priority, table, FALSE)
    BY <2>1 DEF Rule
  <2> QED BY <2>2
<1>2. \A r \in claimed, s \in new : <<r.fam, r.to, r.iif>> # <<s.fam, s.to, s.iif>>
  BY DEF NewClaims, Rule
<1> QED BY <1>1, <1>2 DEF ClaimedOnce

LEMMA ClaimStep == ClaimedOnce /\ [Next]_vars => ClaimedOnce'
<1> SUFFICES ASSUME ClaimedOnce, [Next]_vars PROVE ClaimedOnce'
  OBVIOUS
<1>1. CASE ShareDestinations
  <2> DEFINE lane == lanes[Descending(lanes)[at + 1]]
  <2>1. claimed' = claimed \cup NewClaims(claimed, lane, ToSet(lane.shared),
                                          lane.priority, lane.table)
    BY <1>1 DEF ShareDestinations
  <2> QED BY <2>1, ClaimsStaySingle
<1>2. CASE CrossLanes
  <2> DEFINE pair == CrossPairs(node, lanes)[at + 1]
  <2>1. claimed' = claimed \cup NewClaims(claimed, pair.ds, {pair.us.on},
                                          pair.us.priority, pair.ds.table)
    BY <1>2 DEF CrossLanes
  <2> QED BY <2>1, ClaimsStaySingle
<1>3. CASE UNCHANGED claimed
  BY <1>3 DEF ClaimedOnce
<1> QED
  BY <1>1, <1>2, <1>3 DEF Next, vars, RenderMain, RenderRelations, CollectLane,
     RenderTables, AugmentTable, NextPhase, RenderUplinks, Validate, RunCommand, Finish

LEMMA InitHolds == Init => IInv
<1> SUFFICES ASSUME Init PROVE IInv
  OBVIOUS
<1>1. TypeInv
  BY DEF Init, TypeInv, Stages
<1>2. Commands = {} /\ Listing(node, cmds)
  BY ListingNone, Spelled DEF Init, Commands
<1>3. ListInv
  BY <1>2 DEF Init, ListInv, ClaimInv
<1>4. LoopInv
  BY DEF Init, LoopInv, RelationInv, LaneInv, TableInv, CrossInv, AugmentInv, Collected,
         Tabled, Crossed, Augmented, AfterRelations, AfterCollect, AfterTables,
         AfterCross, AfterAugment
<1>5. KernelInv
  BY EmptyKernelFits DEF Init, KernelInv, Deployed
<1> QED BY <1>1, <1>3, <1>4, <1>5 DEF IInv, ClaimedOnce, Init

\* Every phase keeps the invariant: the conjuncts about what is listed and claimed
\* hold together, those about the loops rest on them, the kernel on the commands.
THEOREM Inductive == Spec => []IInv
<1>1. IInv /\ [Next]_vars => IInv'
  BY TypeStep, StepGrows, LoopStep, ClaimStep, KernelStep DEF IInv
<1> QED BY <1>1, InitHolds, PTL DEF Spec
----------------------------------------------------------------------------
\* The data of the renderer and of the kernel is well formed at any time.
THEOREM TypeCorrect == Spec => []TypeOK
<1>1. IInv => TypeOK
  <2> SUFFICES ASSUME IInv PROVE TypeOK
    OBVIOUS
  <2>1. ASSUME NEW m \in DOMAIN lanes PROVE lanes[m].on \in Interfaces(node)
    <3>1. lanes[m] \in LaneSet(node)
      BY DEF IInv, TypeInv
    <3> QED BY <3>1 DEF LaneSet, LaneLinks, LaneData
  <2>2. TypeInv /\ KernelOf(kernel, Commands)
    BY DEF IInv, KernelInv
  <2>3. ASSUME NEW f \in Families
        PROVE  /\ kernel[f] = [routes |-> kernel[f].routes, rules |-> kernel[f].rules]
               /\ kernel[f].rules \in Seq({c \in Commands : c.fam = f})
    <3>1. Shaped(kernel[f]) /\ kernel[f].rules \in Seq({c \in Commands : c.fam = f /\ c.op # "route"})
      BY <2>2 DEF KernelOf
    <3>2. {c \in Commands : c.fam = f /\ c.op # "route"} \subseteq {c \in Commands : c.fam = f}
      OBVIOUS
    <3> QED BY <3>1, <3>2 DEF Shaped
  <2>4. DOMAIN kernel = Families
    BY <2>2 DEF KernelOf
  <2> QED BY <2>1, <2>2, <2>3, <2>4 DEF TypeInv, TypeOK, Stages
<1> QED BY <1>1, Inductive, PTL

\* However many lanes and pairs of lanes ask for a destination on an interface,
\* one of them gets it.
THEOREM EachClaimedOnce == Spec => []ClaimedOnce
<1>1. IInv => ClaimedOnce
  BY DEF IInv
<1> QED BY <1>1, Inductive, PTL

\* No node is deployed with two rules that disagree about a destination: the
\* validator stands between every phase and the kernel, and the kernel has no
\* rule that no command asked for.
THEOREM OneRuleDeployed == Spec => []OneRulePerDestination
<1>1. IInv => OneRulePerDestination
  <2> SUFFICES ASSUME IInv, Ready, NEW f \in Families,
                      NEW r \in {q \in ToSet(kernel[f].rules) : DestinationRule(q)},
                      NEW s \in {q \in ToSet(kernel[f].rules) : DestinationRule(q)},
                      <<r.to, r.iif>> = <<s.to, s.iif>>
               PROVE  <<r.priority, r.table>> = <<s.priority, s.table>>
    BY DEF OneRulePerDestination
  <2>1. ToSet(kernel[f].rules) \subseteq {c \in Commands : c.fam = f}
    <3> DEFINE S == {c \in Commands : c.fam = f /\ c.op # "route"}
    <3>1. kernel[f].rules \in Seq(S)
      BY DEF IInv, KernelInv, KernelOf
    <3> HIDE DEF S
    <3>2. ToSet(kernel[f].rules) \subseteq S
      BY <3>1, InToSet
    <3> QED BY <3>2 DEF S
  <2>2. Unambiguous(Commands)
    BY DEF IInv, KernelInv, Ready, Deployed
  <2> QED BY <2>1, <2>2 DEF Unambiguous
<1> QED BY <1>1, Inductive, PTL
----------------------------------------------------------------------------
\* Whatever a downstream lane carries is claimed on the upstream side, by some lane.
Expected(n, cs, us, ds) ==
    \A f \in Families : \A d \in DOMAIN ds.groups[f] \ {Default} :
        \E c \in cs : /\ c.op = "rule" /\ c.fam = f /\ c.to = d /\ c.iif = us.on
                      /\ \E lane \in LaneSet(n) : Claiming(n, lane, c)

\* What is true of a node that is ready.
Settled(n, k, cs) ==
    /\ WellShaped(n)
    /\ KernelOf(k, cs)
    /\ \A c \in cs : CommandOf(n, c) /\ InForce(k, c)
    /\ Relations(n) /\ ToSet(RelationRules(n)) \subseteq cs
    /\ \A i \in Interfaces(n) : IsLane(n, i) => Allocated(n, i)
    /\ \A lane \in LaneSet(n) : ToSet(LaneTables(n, lane)) \subseteq cs
    /\ \A us, ds \in LaneSet(n) : Linked(n, us, ds) =>
           /\ ToSet(Augmentation(n, [us |-> us, ds |-> ds])) \subseteq cs
           /\ Expected(n, cs, us, ds)

LEMMA ReadyIsSettled ==
  ASSUME IInv, Ready
  PROVE  Settled(node, kernel, Commands) /\ ToSet(lanes) = LaneSet(node)
<1>1. /\ TypeInv /\ KernelInv /\ Listing(node, cmds) /\ ClaimInv
      /\ RelationInv /\ LaneInv /\ TableInv /\ CrossInv /\ AugmentInv
  BY DEF IInv, ListInv, LoopInv
<1>2. /\ stage \in AfterRelations
      /\ \A k : Collected(k) /\ Tabled(k) /\ Crossed(k) /\ Augmented(k)
  BY DEF Ready, Collected, Tabled, Crossed, Augmented, AfterRelations, AfterCollect,
         AfterTables, AfterCross, AfterAugment
<1>3. WellShaped(node)
  BY <1>1, Shape
<1>4. ToSet(lanes) = LaneSet(node)
  <2>1. ToSet(lanes) \subseteq LaneSet(node)
    BY <1>1, <1>3, LanesAre DEF TypeInv, ToSet
  <2>2. ASSUME NEW lane \in LaneSet(node) PROVE lane \in ToSet(lanes)
    BY <1>1, <1>2 DEF LaneInv, LaneSet, LaneLinks
  <2> QED BY <2>1, <2>2
<1>5. IsSequence(lanes)
  BY <1>1, SequenceIs DEF TypeInv
<1>6. ASSUME NEW lane \in LaneSet(node) PROVE ToSet(LaneTables(node, lane)) \subseteq Commands
  <2>1. PICK k \in 1 .. Len(lanes) : lanes[k] = lane
    BY <1>4, <1>5, ListIs
  <2> QED BY <1>1, <1>2, <2>1 DEF TableInv
<1>7. ASSUME NEW us \in LaneSet(node), NEW ds \in LaneSet(node), Linked(node, us, ds)
      PROVE  /\ ToSet(Augmentation(node, [us |-> us, ds |-> ds])) \subseteq Commands
             /\ Expected(node, Commands, us, ds)
  <2>1. PICK pair : pair = [us |-> us, ds |-> ds]
    OBVIOUS
  <2>2. pair.us = us /\ pair.ds = ds
    BY <2>1
  <2>3. PICK k \in 1 .. Len(Pairs) : Pairs[k] = pair
    <3>1. PICK ls, ps : ls = lanes /\ ps = Pairs /\ ps = CrossPairs(node, ls)
      BY DEF Pairs
    <3>2. IsSequence(ps) /\ [us |-> us, ds |-> ds] \in ToSet(ps)
      <4>1. ls \in Seq(LaneSet(node)) /\ us \in ToSet(ls) /\ ds \in ToSet(ls)
        BY <1>1, <1>4, <3>1 DEF TypeInv
      <4> QED BY <1>3, <1>7, <3>1, <4>1, CrossPairsAre
    <3>3. pair \in ToSet(ps)
      BY <2>1, <3>2
    <3> QED BY <3>1, <3>2, <3>3, ListIs
  <2>4. Claimed(pair) /\ ToSet(Augmentation(node, pair)) \subseteq Commands
    BY <1>1, <1>2, <2>3 DEF CrossInv, AugmentInv
  <2>5. ASSUME NEW f \in Families, NEW d \in DOMAIN ds.groups[f] \ {Default}
        PROVE  \E c \in Commands :
                   /\ c.op = "rule" /\ c.fam = f /\ c.to = d /\ c.iif = us.on
                   /\ \E lane \in LaneSet(node) : Claiming(node, lane, c)
    <3>1. PICK c \in claimed : c.fam = f /\ c.to = d /\ c.iif = us.on
      BY <2>2, <2>4 DEF Claimed
    <3>2. c \in Commands /\ c.op = "rule" /\ \E lane \in LaneSet(node) : Claiming(node, lane, c)
      BY <1>1 DEF ClaimInv
    <3> QED BY <3>1, <3>2
  <2> QED BY <2>1, <2>4, <2>5 DEF Expected
<1>8. KernelOf(kernel, Commands)
  BY <1>1 DEF KernelInv
<1>9. \A c \in Commands : CommandOf(node, c) /\ InForce(kernel, c)
  BY <1>1 DEF KernelInv, Listing, Ready, Commands
<1>10. Relations(node) /\ ToSet(RelationRules(node)) \subseteq Commands
  BY <1>1, <1>2 DEF RelationInv
<1>11. \A i \in Interfaces(node) : IsLane(node, i) => Allocated(node, i)
  BY <1>1, <1>2 DEF LaneInv
<1> QED BY <1>3, <1>4, <1>6, <1>7, <1>8, <1>9, <1>10, <1>11 DEF Settled
----------------------------------------------------------------------------
(***************************************************************************)
(* How the kernel of a node that is ready forwards.                        *)
(***************************************************************************)

\* The routes and rules of a kernel for a family, and the commands behind them.
RouteStems(n, f, q) ==
    \E c : /\ RouteOf(n, c) /\ c.fam = f /\ Parsed(c)
           /\ q.table = c.table /\ q.dst = c.dst /\ q.hops = c.hops

RuleStems(n, f, r) == RuleOf(n, r) /\ r.fam = f /\ r.priority \in Nat

Has(K, table, dst) == \E q \in K.routes : q.table = table /\ q.dst = dst

Stems(n, f, cs, K) ==
    /\ IsSequence(K.rules)
    /\ \A r \in ToSet(K.rules) : RuleStems(n, f, r)
    /\ \A q \in K.routes : RouteStems(n, f, q)
    /\ \A c \in cs : (c.op = "rule" /\ c.fam = f) => c \in ToSet(K.rules)
    /\ \A c \in cs : (c.op = "route" /\ c.fam = f /\ Parsed(c)) => Has(K, c.table, c.dst)

LEMMA Priorities ==
  ASSUME NEW n, WellShaped(n), NEW c, RuleOf(n, c)
  PROVE  c.priority \in Nat
<1>1. CASE Selecting(n, c)
  <2>1. PICK s \in ToSet(n.selectors) :
            c = Rule(s.fam, s.src, s.dst, s.incoming, s.priority, s.table, FALSE)
    BY <1>1 DEF Selecting
  <2>2. c.priority = s.priority
    BY <2>1 DEF Rule
  <2> QED BY <2>2 DEF WellShaped
<1>2. CASE \E lane \in LaneSet(n) : Numbered(lane, c)
  <2>1. PICK lane \in LaneSet(n) : Numbered(lane, c)
    BY <1>2
  <2> QED BY <2>1, LaneFacts DEF Numbered
<1> QED BY <1>1, <1>2 DEF RuleOf

LEMMA KernelStems ==
  ASSUME NEW n, NEW k, NEW cs, Settled(n, k, cs), NEW f \in Families
  PROVE  Stems(n, f, cs, k[f])
<1> DEFINE U == {c \in cs : c.fam = f /\ c.op # "route"}
<1>1. k[f].rules \in Seq(U)
  BY DEF Settled, KernelOf
<1>2. IsSequence(k[f].rules) /\ ToSet(k[f].rules) \subseteq U
  <2> HIDE DEF U
  <2>1. IsSequence(k[f].rules)
    BY <1>1, SequenceIs
  <2>2. ToSet(k[f].rules) \subseteq U
    BY <1>1, InToSet
  <2> QED BY <2>1, <2>2
<1>3. ASSUME NEW r \in ToSet(k[f].rules) PROVE RuleStems(n, f, r)
  <2>1. r \in cs /\ r.fam = f /\ r.op # "route"
    BY <1>2
  <2>2. RuleOf(n, r)
    BY <2>1 DEF Settled, CommandOf
  <2> QED BY <2>1, <2>2, Priorities DEF Settled, RuleStems
<1>4. ASSUME NEW q \in k[f].routes PROVE RouteStems(n, f, q)
  <2>0. KernelOf(k, cs)
    BY DEF Settled
  <2>1. PICK c \in cs :
            /\ c.op = "route" /\ c.fam = f /\ Parsed(c)
            /\ q.table = c.table /\ q.dst = c.dst /\ q.hops = c.hops
    BY <2>0 DEF KernelOf
  <2>2. CommandOf(n, c)
    BY DEF Settled
  <2>3. RouteOf(n, c)
    BY <2>1, <2>2 DEF CommandOf
  <2> QED BY <2>1, <2>3 DEF RouteStems
<1>5. ASSUME NEW c \in cs, c.op = "rule", c.fam = f PROVE c \in ToSet(k[f].rules)
  <2>1. InForce(k, c)
    BY DEF Settled
  <2> QED BY <1>5, <2>1 DEF InForce
<1>6. ASSUME NEW c \in cs, c.op = "route", c.fam = f, Parsed(c) PROVE Has(k[f], c.table, c.dst)
  <2>1. InForce(k, c)
    BY DEF Settled
  <2> QED BY <1>6, <2>1 DEF InForce, Has
<1> QED BY <1>2, <1>3, <1>4, <1>5, <1>6 DEF Stems
----------------------------------------------------------------------------
LEMMA MatchingIs ==
  ASSUME NEW K, NEW table, NEW host
  PROVE  /\ \A q \in Matching(K, table, host) :
                /\ q \in K.routes /\ q.table = table /\ q.dst \in {host, Default}
                /\ Has(K, table, host) => q.dst = host
         /\ Has(K, table, host) \/ Has(K, table, Default) => Matching(K, table, host) # {}
         /\ Matching(K, table, host) # {} => Has(K, table, host) \/ Has(K, table, Default)
BY DEF Matching, Has

\* A rule that decides a packet.
Decides(K, packet, r) ==
    /\ RuleMatches(r, packet)
    /\ Has(K, r.table, packet.dst) \/ Has(K, r.table, Default)
    /\ r.suppress => \A e \in Matching(K, r.table, packet.dst) : e.dst # Default

LEMMA DecidingIs ==
  ASSUME NEW K, IsSequence(K.rules), \A r \in ToSet(K.rules) : r.priority \in Nat,
         NEW packet, NEW r \in ToSet(K.rules), Decides(K, packet, r),
         NEW T, \A q \in ToSet(K.rules) :
                    (Decides(K, packet, q) /\ q.priority <= r.priority) => q.table \in T
  PROVE  /\ DecidingTable(K, packet) \in T
         /\ Has(K, DecidingTable(K, packet), packet.dst)
            \/ Has(K, DecidingTable(K, packet), Default)
<1>1. PICK s, N, D : s = K.rules /\ N = Len(s) /\ D = Deciding(K, packet)
  OBVIOUS
<1>2. IsSequence(s) /\ N \in Nat /\ \A x : x \in ToSet(s) <=> \E i \in 1 .. N : s[i] = x
  BY <1>1, ListIs
<1>3. \A i : i \in D <=> i \in 1 .. N /\ Decides(K, packet, s[i])
  BY <1>1, MatchingIs DEF Deciding, Decides
<1>4. PICK m \in 1 .. N : s[m] = r
  BY <1>1, <1>2
<1>5. m \in D
  BY <1>3, <1>4
<1>6. \A i \in 1 .. N : s[i].priority \in Nat
  BY <1>1, <1>2
<1>7. PICK P : P = {s[i].priority : i \in D}
  OBVIOUS
<1>8. PICK p \in P : \A x \in P : p <= x
  <2>1. P \subseteq Nat /\ P # {}
    BY <1>3, <1>5, <1>6, <1>7
  <2> QED BY <2>1, Least
<1>9. PICK E : E = {i \in D : s[i].priority = p}
  OBVIOUS
<1>10. PICK n \in E : \A i \in E : n <= i
  <2>1. E \subseteq Nat /\ E # {}
    BY <1>3, <1>7, <1>8, <1>9
  <2> QED BY <2>1, Least
<1>11. n \in D /\ \A i \in D : Precedes(K, n, i)
  <2>1. n \in D /\ s[n].priority = p
    BY <1>9
  <2>2. ASSUME NEW i \in D PROVE Precedes(K, n, i)
    <3>1. p <= s[i].priority /\ p \in Nat /\ s[i].priority \in Nat
      BY <1>3, <1>6, <1>7, <1>8, <2>1
    <3>2. s[i].priority = p => n <= i
      BY <1>9, <1>10
    <3> QED BY <1>1, <2>1, <3>1, <3>2 DEF Precedes
  <2> QED BY <2>1, <2>2
<1>12. PICK first : first = FirstDeciding(K, packet)
  OBVIOUS
<1>13. first \in D /\ \A i \in D : Precedes(K, first, i)
  BY <1>1, <1>11, <1>12 DEF FirstDeciding
<1>14. DecidingTable(K, packet) = s[first].table
  BY <1>1, <1>5, <1>12 DEF DecidingTable
<1>15. Decides(K, packet, s[first]) /\ s[first] \in ToSet(s)
  BY <1>2, <1>3, <1>13
<1>16. s[first].priority <= r.priority
  <2>1. Precedes(K, first, m)
    BY <1>5, <1>13
  <2>2. s[first].priority \in Nat /\ r.priority \in Nat
    BY <1>1, <1>15
  <2> QED BY <1>1, <1>4, <2>1, <2>2 DEF Precedes
<1>17. s[first].table \in T
  BY <1>1, <1>15, <1>16
<1>18. Has(K, s[first].table, packet.dst) \/ Has(K, s[first].table, Default)
  BY <1>15 DEF Decides
<1> QED BY <1>14, <1>17, <1>18
----------------------------------------------------------------------------
\* The table of a lane in the kernel.
LEMMA TableStands ==
  ASSUME NEW n, NEW k, NEW cs, Settled(n, k, cs), NEW f \in Families, NEW lane \in LaneSet(n)
  PROVE  /\ \A d \in DOMAIN lane.groups[f] : Has(k[f], lane.table, d)
         /\ (lane.groups[4] = NoGroups /\ ~FacesUplink(n, lane) /\ f = 4) =>
                Has(k[f], lane.table, Default) /\ UnscopedRule(lane, 4) \in ToSet(k[f].rules)
<1>1. WellShaped(n) /\ ToSet(LaneTables(n, lane)) \subseteq cs /\ Stems(n, f, cs, k[f])
  BY KernelStems DEF Settled
<1>2. PICK g : g = lane.groups[f] /\ WellGrouped(g)
  BY <1>1, LaneRoutes
<1>3. ASSUME NEW d \in DOMAIN g PROVE Has(k[f], lane.table, d)
  <2>1. lane.groups[f] # NoGroups
    BY <1>2, DomainHolds
  <2>2. PICK c : c = Route(f, lane.table, d, ToSet(g[d]))
    OBVIOUS
  <2>3. c \in ToSet(TableRoutes(lane, f))
    BY <1>1, <1>2, <2>2, TableRoutesAre
  <2>4. c \in cs
    BY <1>1, <2>1, <2>3, FamilyTableIs, LaneTablesAre
  <2>5. c.op = "route" /\ c.fam = f /\ c.table = lane.table /\ c.dst = d /\ c.hops = ToSet(g[d])
    BY <2>2 DEF Route
  <2>6. ASSUME NEW h \in c.hops PROVE h.via # Garbled
    <3>1. Holds(lane.groups[f], d, h)
      BY <1>2, <2>5 DEF Holds
    <3>2. PICK r \in ToSet(Routes(n, f)) : Explains(n, lane.on, f, r, d, h)
      BY <1>1, <3>1, LaneRoutes
    <3> QED BY <3>2 DEF Explains
  <2> QED BY <1>1, <2>4, <2>5, <2>6 DEF Stems, Parsed
<1>4. ASSUME lane.groups[4] = NoGroups, ~FacesUplink(n, lane), f = 4
      PROVE  Has(k[f], lane.table, Default) /\ UnscopedRule(lane, 4) \in ToSet(k[f].rules)
  <2>1. PICK b, r : b = Route(4, lane.table, Default, Blackhole) /\ r = UnscopedRule(lane, 4)
    OBVIOUS
  <2>2. b \in cs /\ r \in cs
    BY <1>1, <1>4, <2>1, LaneTablesAre
  <2>3. /\ b.op = "route" /\ b.fam = 4 /\ b.table = lane.table /\ b.dst = Default /\ b.hops = {}
        /\ r.op = "rule" /\ r.fam = 4
    BY <2>1 DEF Route, Rule, UnscopedRule, Blackhole
  <2> QED BY <1>1, <1>4, <2>1, <2>2, <2>3 DEF Stems, Parsed
<1> QED BY <1>2, <1>3, <1>4
----------------------------------------------------------------------------
\* A rule that a relation asked for, as it stands in the kernel.
LEMMA SelectorStands ==
  ASSUME NEW n, NEW k, NEW cs, Settled(n, k, cs), NEW s \in ToSet(n.selectors)
  PROVE  /\ s.fam \in Families
         /\ Rule(s.fam, s.src, s.dst, s.incoming, s.priority, s.table, FALSE)
            \in ToSet(k[s.fam].rules)
         /\ s.src # Default /\ s.dst # Default /\ s.incoming # AnyDevice
         /\ s.policy \in Interfaces(n) /\ Allocated(n, s.policy)
         /\ Alloc(n, s.policy).table = s.table
         /\ \E j \in 1 .. Len(n.ifs[s.policy].routes[s.fam]) :
                j \in Granting(n, s) /\ n.ifs[s.policy].routes[s.fam][j].dst = s.dst
<1>1. WellShaped(n) /\ Relations(n) /\ ToSet(RelationRules(n)) \subseteq cs
  BY DEF Settled
<1>2. s.fam \in Families
  BY <1>1 DEF WellShaped
<1>3. ValidSelector(n, s)
  BY <1>1 DEF Relations
<1>4. PICK c : c = Rule(s.fam, s.src, s.dst, s.incoming, s.priority, s.table, FALSE)
  OBVIOUS
<1>5. c \in cs /\ c.op = "rule" /\ c.fam = s.fam
  <2>1. c \in ToSet(RelationRules(n))
    BY <1>1, <1>4, RelationRulesAre
  <2> QED BY <1>1, <1>4, <2>1 DEF Rule
<1>6. c \in ToSet(k[s.fam].rules)
  BY <1>2, <1>5, KernelStems DEF Stems
<1>7. s.src # Default /\ s.dst # Default /\ {s.incoming, s.policy} \subseteq Interfaces(n)
  BY <1>3 DEF ValidSelector
<1>8. s.incoming # AnyDevice
  BY <1>1, <1>7, InterfacesAre DEF AnyDevice
<1>9. Allocated(n, s.policy) /\ Alloc(n, s.policy).table = s.table
  BY <1>3 DEF ValidSelector, Allocated, Alloc
<1>10. \E j \in 1 .. Len(n.ifs[s.policy].routes[s.fam]) :
           j \in Granting(n, s) /\ n.ifs[s.policy].routes[s.fam][j].dst = s.dst
  <2>1. PICK j \in 1 .. Len(n.ifs[s.policy].routes[s.fam]) : Granting(n, s) = {j}
    BY <1>3 DEF ValidSelector
  <2>2. n.ifs[s.policy].routes[s.fam][j].dst = s.dst
    BY <2>1 DEF Granting
  <2> QED BY <2>1, <2>2
<1> QED BY <1>2, <1>4, <1>6, <1>7, <1>8, <1>9, <1>10

LEMMA SelectedTable ==
  ASSUME NEW n, NEW k, NEW cs, Settled(n, k, cs), SelectorsFit(n), NEW s \in ToSet(n.selectors)
  PROVE  Has(k[s.fam], s.table, s.dst)
<1>1. WellShaped(n) /\ IsLane(n, s.policy)
  BY DEF Settled, SelectorsFit
<1>2. s.policy \in LaneLinks(n) /\ s.policy \in Interfaces(n) /\ s.fam \in Families
  BY <1>1, SelectorStands DEF LaneLinks
<1>3. PICK lane : lane = LaneData(n, s.policy)
  OBVIOUS
<1>4. lane \in LaneSet(n) /\ lane.on = s.policy
  BY <1>2, <1>3 DEF LaneSet, LaneData
<1>5. lane.table = s.table
  <2>1. lane.table = Alloc(n, lane.on).table
    BY <1>1, <1>4, LaneFacts
  <2>2. Alloc(n, s.policy).table = s.table
    BY SelectorStands
  <2> QED BY <1>4, <2>1, <2>2
<1>6. PICK j \in 1 .. Len(n.ifs[s.policy].routes[s.fam]) :
          j \in Granting(n, s) /\ n.ifs[s.policy].routes[s.fam][j].dst = s.dst
  BY SelectorStands
<1>7. PICK r : r = [on |-> s.policy, route |-> n.ifs[s.policy].routes[s.fam][j]]
  OBVIOUS
<1>8. r.on = s.policy /\ r.route.dst = s.dst
  BY <1>6, <1>7
<1>9. r \in ToSet(Routes(n, s.fam))
  BY <1>1, <1>2, <1>7, RoutesAre
<1>10. Takes(n, s.policy, r, s.fam)
  BY <1>6, <1>7 DEF SelectorsFit
<1>11. s.dst \in DOMAIN lane.groups[s.fam]
  <2>1. s.dst # Default
    BY SelectorStands
  <2>2. Takes(n, lane.on, r, s.fam) /\ r.on = lane.on /\ r.route.dst # Default
    BY <1>4, <1>8, <1>10, <2>1
  <2>3. \A q \in ToSet(Routes(n, s.fam)) :
            (Takes(n, lane.on, q, s.fam) /\ q.on = lane.on /\ q.route.dst # Default)
            => q.route.dst \in DOMAIN lane.groups[s.fam]
    BY <1>1, <1>2, <1>4, LaneRoutes
  <2> QED BY <1>8, <1>9, <2>2, <2>3
<1> QED BY <1>2, <1>4, <1>5, <1>11, TableStands

\* The source of a selector is the destination of its counterpart, which a route
\* of the node grants.
LEMMA SourceIsKnown ==
  ASSUME NEW n, NEW k, NEW cs, Settled(n, k, cs), NEW s \in ToSet(n.selectors)
  PROVE  s.src \in Subnets(n, s.fam)
<1>1. WellShaped(n) /\ Relations(n)
  BY DEF Settled
<1>2. PICK list : list = n.selectors /\ IsSequence(list) /\ s \in ToSet(list)
  BY <1>1 DEF WellShaped
<1>3. PICK T : T = {t \in ToSet(list) : t.relation = s.relation /\ t.fam = s.fam}
  OBVIOUS
<1>4. PICK group : group = Keep(list, T)
  OBVIOUS
<1>5. IsSequence(group) /\ ToSet(group) = ToSet(list) \cap T
  BY <1>2, <1>4, KeepIs
<1>6. Len(group) = 2 /\ group[1].src = group[2].dst /\ group[1].dst = group[2].src
  BY <1>1, <1>2, <1>3, <1>4 DEF Relations, Paired
<1>7. \A x : x \in ToSet(group) <=> x = group[1] \/ x = group[2]
  <2>1. \A x : x \in ToSet(group) <=> \E i \in 1 .. Len(group) : group[i] = x
    BY <1>5, ListIs
  <2>2. 1 .. 2 = {1, 2}
    OBVIOUS
  <2> QED BY <1>6, <2>1, <2>2
<1>8. PICK t \in ToSet(n.selectors) : t.fam = s.fam /\ t.dst = s.src
  <2>1. s \in ToSet(group)
    BY <1>2, <1>3, <1>5
  <2>2. \A x \in ToSet(group) : x \in ToSet(n.selectors) /\ x.fam = s.fam
    BY <1>2, <1>3, <1>5
  <2>3. \E x \in ToSet(group) : x.dst = s.src
    BY <1>6, <1>7, <2>1
  <2> QED BY <2>2, <2>3
<1>9. PICK j \in 1 .. Len(n.ifs[t.policy].routes[t.fam]) :
          j \in Granting(n, t) /\ n.ifs[t.policy].routes[t.fam][j].dst = t.dst
  BY SelectorStands
<1>10. t.fam \in Families /\ t.policy \in Interfaces(n)
  BY SelectorStands
<1>11. PICK r : r = [on |-> t.policy, route |-> n.ifs[t.policy].routes[t.fam][j]]
  OBVIOUS
<1>12. r \in ToSet(Routes(n, t.fam)) /\ r.route.dst = t.dst
  <2>1. r \in ToSet(Routes(n, t.fam))
    BY <1>1, <1>9, <1>10, <1>11, RoutesAre
  <2> QED BY <1>9, <1>11, <2>1
<1> QED BY <1>8, <1>12 DEF Subnets

\* What a relation selects is looked up in the table of the policy that owns it:
\* its own rule finds a route, and no rule of a lane that the packet meets, whatever
\* phase it is of, comes before it, unless the lane serves the incoming interface.
THEOREM SelectionFollows ==
  Spec => [](SelectorsFit(node) /\ AddressesApart(node) => SelectionDecides)
<1>1. IInv => (SelectorsFit(node) /\ AddressesApart(node) => SelectionDecides)
  <2> SUFFICES ASSUME IInv, SelectorsFit(node), AddressesApart(node), Ready,
                       NEW s \in ToSet(node.selectors),
                      InFront(s) = {}
               PROVE  DecidingTable(kernel[s.fam], Packet(s.src, s.dst, s.incoming)) = s.table
    BY DEF SelectionDecides
  <2>1. PICK n, k, cs : n = node /\ k = kernel /\ cs = Commands
    OBVIOUS
  <2>2. /\ Settled(n, k, cs) /\ SelectorsFit(n) /\ s \in ToSet(n.selectors)
        /\ ToSet(lanes) = LaneSet(n) /\ AddressesApart(n)
    BY <2>1, ReadyIsSettled
  <2>3. PICK K, p : K = k[s.fam] /\ p = Packet(s.src, s.dst, s.incoming)
    OBVIOUS
  <2>4. p.src = s.src /\ p.dst = s.dst /\ p.iif = s.incoming
    BY <2>3 DEF Packet
  <2>5. s.fam \in Families /\ Stems(n, s.fam, cs, K)
    BY <2>2, <2>3, SelectorStands, KernelStems
  <2>6. PICK c : c = Rule(s.fam, s.src, s.dst, s.incoming, s.priority, s.table, FALSE)
    OBVIOUS
  <2>7. /\ c.from = s.src /\ c.to = s.dst /\ c.iif = s.incoming /\ c.priority = s.priority
        /\ c.table = s.table /\ c.suppress = FALSE /\ c \in ToSet(K.rules)
    <3>1. /\ c.from = s.src /\ c.to = s.dst /\ c.iif = s.incoming
          /\ c.priority = s.priority /\ c.table = s.table /\ c.suppress = FALSE
      BY <2>6 DEF Rule
    <3>2. c \in ToSet(K.rules)
      BY <2>2, <2>3, <2>6, SelectorStands
    <3> QED BY <3>1, <3>2
  <2>8. Decides(K, p, c)
    <3>1. RuleMatches(c, p)
      BY <2>4, <2>7 DEF RuleMatches, Covers
    <3>2. Has(K, c.table, p.dst)
      BY <2>2, <2>3, <2>4, <2>7, SelectedTable
    <3> QED BY <2>7, <3>1, <3>2 DEF Decides
  <2>9. ASSUME NEW q \in ToSet(K.rules), Decides(K, p, q), q.priority <= c.priority
        PROVE  q.table \in {s.table}
    <3>1. RuleOf(n, q) /\ q.fam = s.fam /\ q.priority \in Nat
      BY <2>5 DEF Stems, RuleStems
    <3>2. /\ q.iif \in {AnyDevice, s.incoming} /\ q.from \in {Default, s.src}
          /\ q.to \in {Default, s.dst}
      BY <2>4, <2>9 DEF Decides, RuleMatches, Covers
    <3>3. CASE Selecting(n, q)
      <4>1. PICK t \in ToSet(n.selectors) :
                q = Rule(t.fam, t.src, t.dst, t.incoming, t.priority, t.table, FALSE)
        BY <3>3 DEF Selecting
      <4>2. q.fam = t.fam /\ q.from = t.src /\ q.to = t.dst /\ q.iif = t.incoming /\ q.table = t.table
        BY <4>1 DEF Rule
      <4>3. t.src # Default /\ t.dst # Default /\ t.incoming # AnyDevice
        BY <2>2, SelectorStands
      <4>4. <<s.fam, s.src, s.dst, s.incoming>> = <<t.fam, t.src, t.dst, t.incoming>>
        BY <3>1, <3>2, <4>2, <4>3
      <4> QED BY <2>2, <4>2, <4>4 DEF SelectorsFit
    <3>4. CASE ~Selecting(n, q)
      <4>1. PICK lane \in LaneSet(n) : Numbered(lane, q)
        BY <3>1, <3>4 DEF RuleOf
      <4>2. WellShaped(n)
        BY <2>2 DEF Settled
      <4>3. /\ lane.on \in LaneLinks(n) /\ lane.priority \in Nat /\ lane.suppress \in Nat
            /\ lane.priority = Alloc(n, lane.on).priority
            /\ lane.suppress = Alloc(n, lane.on).suppress
        BY <4>2, LaneFacts
      <4>4. s.priority \in Nat
        BY <2>2, <4>2 DEF WellShaped
      <4>5. CASE q.iif = s.incoming
        <5>1. s.incoming # AnyDevice
          BY <2>2, SelectorStands
        <5>2. Serves(lane, s.incoming)
          BY <4>1, <4>5, <5>1 DEF Numbered
        <5>3. PICK m \in DOMAIN lanes : lanes[m] = lane
          BY <2>2 DEF ToSet
        <5>4. \/ s.priority < lane.priority /\ lane.suppress = 0
              \/ s.priority < lane.priority /\ s.priority < lane.suppress
          <6>1. m \notin InFront(s)
            OBVIOUS
          <6> QED BY <4>3, <4>4, <5>2, <5>3, <6>1 DEF InFront
        <5> QED BY <2>7, <2>9, <3>1, <4>1, <4>3, <4>4, <5>4 DEF Numbered
      <4>6. CASE q.iif = AnyDevice
        <5>1. PICK l \in LaneSet(n) : BySource(n, l, q) \/ FromResolver(n, l, q)
                                       \/ Claiming(n, l, q) \/ Denying(l, q)
          BY <3>1, <3>4 DEF RuleOf
        <5>2. l.on \in Interfaces(n) /\ \A i \in Interfaces(n) : i # AnyDevice
          BY <4>2, LaneFacts, InterfacesAre DEF AnyDevice
        <5>3. ~Denying(l, q)
          BY <4>6, <5>2 DEF Denying, UnscopedRule, Rule
        <5>4. FromResolver(n, l, q)
          BY <4>6, <5>1, <5>2, <5>3 DEF BySource, Claiming
        <5>5. PICK b \in ToSet(n.resolverSources) :
                  HasSubnet(n, b, s.fam) /\ q.from = n.ifs[b].self[s.fam]
          BY <3>1, <5>4 DEF FromResolver, Rule
        <5>6. b \in Interfaces(n)
          BY <4>2, <5>5 DEF WellShaped
        <5>7. n.ifs[b].self[s.fam] \notin {Default} \cup Subnets(n, s.fam)
          BY <2>2, <2>5, <5>5, <5>6 DEF AddressesApart
        <5>8. s.src \in Subnets(n, s.fam)
          BY <2>2, SourceIsKnown
        <5> QED BY <3>2, <5>5, <5>7, <5>8
      <4> QED BY <3>2, <4>5, <4>6
    <3> QED BY <3>3, <3>4
  <2>10. DecidingTable(K, p) \in {s.table}
    <3>1. PICK T : T = {s.table}
      OBVIOUS
    <3>2. IsSequence(K.rules) /\ \A r \in ToSet(K.rules) : r.priority \in Nat
      BY <2>5 DEF Stems, RuleStems
    <3>3. \A q \in ToSet(K.rules) : (Decides(K, p, q) /\ q.priority <= c.priority) => q.table \in T
      BY <2>9, <3>1
    <3> QED BY <2>7, <2>8, <3>1, <3>2, <3>3, DecidingIs
  <2> QED BY <2>1, <2>3, <2>10
<1> QED BY <1>1, Inductive, PTL
----------------------------------------------------------------------------
LEMMA OneLane ==
  ASSUME NEW n, WellShaped(n), NEW a \in LaneSet(n), NEW b \in LaneSet(n)
  PROVE  /\ a.on = b.on => a = b
         /\ (TablesApart(n) /\ a.table = b.table) => a = b
         /\ TablesApart(n) => a.table # Main
<1>1. /\ a = LaneData(n, a.on) /\ a.on \in LaneLinks(n) /\ a.table = Alloc(n, a.on).table
      /\ b = LaneData(n, b.on) /\ b.on \in LaneLinks(n) /\ b.table = Alloc(n, b.on).table
  BY LaneFacts
<1>2. a.on = b.on => a = b
  BY <1>1
<1>3. TablesApart(n) => a.table # Main /\ (a.table = b.table => a.on = b.on)
  BY <1>1 DEF TablesApart
<1> QED BY <1>2, <1>3

\* A host of a subnet is no address of the node.
LEMMA ResolverApart ==
  ASSUME NEW n, WellShaped(n), AddressesApart(n), NEW f \in Families,
         NEW lane \in LaneSet(n), NEW c, FromResolver(n, lane, c), c.fam = f,
         NEW src \in ({World} \cup Subnets(n, f)) \ {Default}
  PROVE  c.from \notin {Default, src} /\ c.iif = AnyDevice /\ c.to = Default
<1>1. PICK b \in ToSet(n.resolverSources) :
          /\ HasSubnet(n, b, c.fam)
          /\ c = Rule(c.fam, n.ifs[b].self[c.fam], Default, AnyDevice,
                      lane.priority, lane.table, FALSE)
  BY DEF FromResolver
<1>2. c.from = n.ifs[b].self[f] /\ c.iif = AnyDevice /\ c.to = Default
  BY <1>1 DEF Rule
<1>3. b \in Interfaces(n)
  BY DEF WellShaped
<1> QED BY <1>1, <1>2, <1>3 DEF AddressesApart

\* The routes in the table of a lane without routes.
LEMMA DeniedTable ==
  ASSUME NEW n, WellShaped(n), TablesApart(n), NEW lane \in LaneSet(n), Denied(lane),
         NEW f \in Families, NEW q, RouteStems(n, f, q), q.table = lane.table
  PROVE  q.hops = Blackhole
<1>1. PICK c : /\ RouteOf(n, c) /\ c.fam = f
               /\ q.table = c.table /\ q.dst = c.dst /\ q.hops = c.hops
  BY DEF RouteStems
<1>2. PICK other \in LaneSet(n) :
          /\ c.table = other.table
          /\ Carrying(other, c) \/ Attaching(n, other, c) \/ Copying(n, other, c)
             \/ Blocking(other, c)
  BY <1>1, OneLane DEF RouteOf
<1>3. other = lane
  BY <1>1, <1>2, OneLane
<1>4. DOMAIN lane.groups[c.fam] = {}
  BY <1>1, NoGroupsIs DEF Denied
<1>5. ~Carrying(lane, c) /\ ~Attaching(n, lane, c) /\ ~Copying(n, lane, c)
  BY <1>1, <1>4 DEF Carrying, Attaching, Copying, HasDefault
<1> QED BY <1>1, <1>2, <1>3, <1>5 DEF Blocking

LEMMA DeniedRules ==
  ASSUME NEW n, WellShaped(n), NEW k, NEW cs, Settled(n, k, cs), AddressesApart(n), DenialsFit(n),
         NEW lane \in LaneSet(n), Denied(lane),
         NEW src \in ({World} \cup Subnets(n, 4)) \ {Default}, NEW dst,
         NEW q, RuleStems(n, 4, q), RuleMatches(q, Packet(src, dst, lane.on)),
         <<q.to, q.iif>> # <<dst, lane.on>>
  PROVE  q.table = lane.table
<1>0. 4 \in Families
  BY DEF Families
<1>1. /\ q.iif \in {AnyDevice, lane.on} /\ q.from \in {Default, src} /\ q.to \in {Default, dst}
      /\ RuleOf(n, q) /\ q.fam = 4
  BY DEF RuleMatches, Covers, Packet, RuleStems
<1>2. lane.on \in LaneLinks(n) /\ lane = LaneData(n, lane.on) /\ lane.on # AnyDevice
  BY LaneFacts, InterfacesAre DEF AnyDevice
<1>3. \A i \in Interfaces(n) : i # AnyDevice
  BY InterfacesAre DEF AnyDevice
<1>4. ~Selecting(n, q)
  <2> SUFFICES ASSUME NEW t \in ToSet(n.selectors),
                      q = Rule(t.fam, t.src, t.dst, t.incoming, t.priority, t.table, FALSE)
               PROVE  FALSE
    BY DEF Selecting
  <2>1. q.to = t.dst /\ q.iif = t.incoming
    BY DEF Rule
  <2>2. t.dst # Default /\ t.incoming # AnyDevice
    BY SelectorStands
  <2> QED BY <1>1, <2>1, <2>2
<1>5. PICK by \in LaneSet(n) : BySource(n, by, q) \/ FromResolver(n, by, q)
                               \/ Claiming(n, by, q) \/ Denying(by, q)
  BY <1>1, <1>4 DEF RuleOf
<1>6. ~BySource(n, by, q)
  <2> SUFFICES ASSUME BySource(n, by, q) PROVE FALSE
    OBVIOUS
  <2>1. q.iif = lane.on /\ by.groups[4] # NoGroups
    BY <1>1, <1>3 DEF BySource
  <2>2. by.on # lane.on
    BY <1>0, <2>1, OneLane DEF Denied
  <2>3. q.from \in SourcePrefixes(n, lane.on, 4, TRUE)
    BY <1>1, <2>1, <2>2 DEF BySource
  <2>4. SourcePrefixes(n, lane.on, 4, TRUE) = {}
    BY <1>2 DEF DenialsFit
  <2> QED BY <2>3, <2>4
<1>7. ~FromResolver(n, by, q)
  BY <1>0, <1>1, ResolverApart
<1>8. ~Claiming(n, by, q)
  BY <1>1, <1>3 DEF Claiming
<1>9. Denying(by, q)
  BY <1>5, <1>6, <1>7, <1>8
<1>10. q.iif = by.on /\ q.table = by.table
  BY <1>9 DEF Denying, UnscopedRule, Rule
<1>11. by.on # AnyDevice
  BY <1>3, LaneFacts
<1> QED BY <1>1, <1>10, <1>11, OneLane

\* What enters on a lane without routes, from anywhere and for no one else, meets
\* the blackhole of that lane's table: neither another lane's rules nor the
\* resolver's take it.
THEOREM DeniedIsDropped ==
  Spec => []((TablesApart(node) /\ AddressesApart(node) /\ DenialsFit(node))
             => DeniedIPv4IsSilent)
<1>1. IInv => ((TablesApart(node) /\ AddressesApart(node) /\ DenialsFit(node))
               => DeniedIPv4IsSilent)
  <2> SUFFICES ASSUME IInv, Ready, TablesApart(node), AddressesApart(node), DenialsFit(node),
                      NEW i \in DOMAIN lanes, Denied(lanes[i]), ~FacesUplink(node, lanes[i]),
                      NEW src \in Hosts(4), NEW dst \in Hosts(4),
                      ~\E r \in ToSet(kernel[4].rules) : <<r.to, r.iif>> = <<dst, lanes[i].on>>
               PROVE  Dropped(kernel[4], Packet(src, dst, lanes[i].on))
    BY DEF DeniedIPv4IsSilent, Silent
  <2>1. PICK n, k, cs : n = node /\ k = kernel /\ cs = Commands
    OBVIOUS
  <2>2. /\ Settled(n, k, cs) /\ WellShaped(n)
        /\ TablesApart(n) /\ AddressesApart(n) /\ DenialsFit(n)
    BY <2>1, ReadyIsSettled DEF Settled
  <2>3. PICK lane \in LaneSet(n) : lane = lanes[i]
    <3>1. lanes[i] \in ToSet(lanes)
      BY DEF ToSet
    <3> QED BY <2>1, <3>1, ReadyIsSettled
  <2>4. Denied(lane) /\ ~FacesUplink(n, lane)
    BY <2>1, <2>3
  <2>5. PICK K, p : K = k[4] /\ p = Packet(src, dst, lane.on)
    OBVIOUS
  <2>6. 4 \in Families /\ Stems(n, 4, cs, K)
    BY <2>2, <2>5, KernelStems DEF Families
  <2>7. PICK c : c = UnscopedRule(lane, 4)
    OBVIOUS
  <2>8. /\ c.from = Default /\ c.to = Default /\ c.iif = lane.on
        /\ c.table = lane.table /\ c.suppress = FALSE
    BY <2>7 DEF UnscopedRule, Rule
  <2>9. c \in ToSet(K.rules) /\ Has(K, lane.table, Default)
    <3>1. lane.groups[4] = NoGroups
      BY <2>4, <2>6 DEF Denied
    <3> QED BY <2>2, <2>4, <2>5, <2>6, <2>7, <3>1, TableStands
  <2>10. Decides(K, p, c)
    BY <2>5, <2>8, <2>9 DEF Decides, RuleMatches, Covers, Packet
  <2>11. ASSUME NEW q \in ToSet(K.rules), Decides(K, p, q) PROVE q.table \in {lane.table}
    <3>1. RuleStems(n, 4, q)
      BY <2>6 DEF Stems
    <3>2. RuleMatches(q, Packet(src, dst, lane.on))
      BY <2>5, <2>11 DEF Decides
    <3>3. <<q.to, q.iif>> # <<dst, lane.on>>
      BY <2>1, <2>3, <2>5
    <3>4. src \in ({World} \cup Subnets(n, 4)) \ {Default}
      BY <2>1 DEF Hosts
    <3> QED BY <2>2, <2>4, <3>1, <3>2, <3>3, <3>4, DeniedRules
  <2>12. DecidingTable(K, p) = lane.table
    <3>1. PICK T : T = {lane.table}
      OBVIOUS
    <3>2. IsSequence(K.rules) /\ \A r \in ToSet(K.rules) : r.priority \in Nat
      BY <2>6 DEF Stems, RuleStems
    <3>3. \A q \in ToSet(K.rules) : (Decides(K, p, q) /\ q.priority <= c.priority) => q.table \in T
      BY <2>11, <3>1
    <3> QED BY <2>9, <2>10, <3>1, <3>2, <3>3, DecidingIs
  <2>13. PICK e \in Matching(K, lane.table, dst) : TRUE
    BY <2>9, MatchingIs
  <2>14. e \in K.routes /\ e.table = lane.table
    BY <2>13, MatchingIs
  <2>15. e.hops = Blackhole
    BY <2>2, <2>4, <2>6, <2>14, DeniedTable DEF Stems
  <2>16. Lookup(K, p) = Matching(K, lane.table, dst)
    BY <2>5, <2>12 DEF Lookup, Packet
  <2> QED BY <2>1, <2>3, <2>5, <2>13, <2>15, <2>16 DEF Dropped
<1> QED BY <1>1, Inductive, PTL
----------------------------------------------------------------------------
\* A route in the table of a lane stems from a command for that lane.
LaneRoute(n, lane, f, q) ==
    \E c : /\ c.fam = f /\ q.dst = c.dst /\ q.hops = c.hops
           /\ Carrying(lane, c) \/ Attaching(n, lane, c) \/ Copying(n, lane, c)
              \/ Blocking(lane, c)

LEMMA LaneRouteIs ==
  ASSUME NEW n, WellShaped(n), TablesApart(n), NEW lane \in LaneSet(n), NEW f,
         NEW q, RouteStems(n, f, q), q.table = lane.table
  PROVE  LaneRoute(n, lane, f, q)
<1>1. PICK c : /\ RouteOf(n, c) /\ c.fam = f
               /\ q.table = c.table /\ q.dst = c.dst /\ q.hops = c.hops
  BY DEF RouteStems
<1>2. PICK other \in LaneSet(n) :
          /\ c.table = other.table
          /\ Carrying(other, c) \/ Attaching(n, other, c) \/ Copying(n, other, c)
             \/ Blocking(other, c)
  BY <1>1, OneLane DEF RouteOf
<1>3. other = lane
  BY <1>1, <1>2, OneLane
<1> QED BY <1>1, <1>2, <1>3 DEF LaneRoute

\* A route leaves somewhere, and by these interfaces only.
Leaves(q, out) == q.hops # {} /\ \A h \in q.hops : h.dev \in out

LEMMA TableBehind ==
  ASSUME NEW n, WellShaped(n), NEW f \in Families, NEW lane \in LaneSet(n),
         NEW out, NEW q, LaneRoute(n, lane, f, q),
         q.dst # Default \/ lane.groups[f] # NoGroups,
         OnlyBehind(n, f, q.dst, out, lane.on)
  PROVE  Leaves(q, out)
<1>1. PICK c : /\ c.fam = f /\ q.dst = c.dst /\ q.hops = c.hops
               /\ Carrying(lane, c) \/ Attaching(n, lane, c) \/ Copying(n, lane, c)
                  \/ Blocking(lane, c)
  BY DEF LaneRoute
<1>2. ASSUME NEW other \in LaneSet(n),
             other = lane \/ (/\ Lane(n, lane.on).access # None
                               /\ Lane(n, other.on).access = Lane(n, lane.on).access)
      PROVE  /\ other.on \in Behind(n, lane.on) /\ other.on \in Interfaces(n)
             /\ \A h : Holds(other.groups[f], c.dst, h) => h.dev \in out
  <2>1. other.on \in Behind(n, lane.on) /\ other.on \in Interfaces(n)
    BY <1>2, LaneFacts DEF Behind
  <2>2. ASSUME NEW h, Holds(other.groups[f], c.dst, h) PROVE h.dev \in out
    <3>1. PICK r \in ToSet(Routes(n, f)) : Explains(n, other.on, f, r, c.dst, h)
      BY <2>2, LaneRoutes
    <3>2. Out(n, other.on, r, f) \in out
      BY <1>1, <2>1, <3>1 DEF OnlyBehind, Explains
    <3> QED BY <3>1, <3>2 DEF Explains
  <2> QED BY <2>1, <2>2
<1>3. CASE Carrying(lane, c)
  <2>1. c.dst \in DOMAIN lane.groups[f] /\ c.hops = ToSet(lane.groups[f][c.dst])
    BY <1>1, <1>3 DEF Carrying
  <2>2. WellGrouped(lane.groups[f])
    BY LaneRoutes
  <2>3. c.hops # {} /\ \A h \in c.hops : Holds(lane.groups[f], c.dst, h)
    BY <2>1, <2>2 DEF WellGrouped, Holds
  <2> QED BY <1>1, <1>2, <2>3 DEF Leaves
<1>4. CASE Attaching(n, lane, c)
  <2>1. PICK b \in ToSet(n.resolverSources) : c.dst = n.ifs[b].net[f] /\ c.hops = {Hop(OnLink, b)}
    BY <1>1, <1>4 DEF Attaching
  <2>2. b \in Interfaces(n)
    BY DEF WellShaped
  <2>3. b \in out
    BY <1>1, <2>1, <2>2 DEF OnlyBehind
  <2> QED BY <1>1, <2>1, <2>3 DEF Hop, Leaves
<1>5. CASE Copying(n, lane, c)
  <2>1. PICK ds \in LaneSet(n) :
            /\ Lane(n, lane.on).access # None
            /\ Lane(n, ds.on).access = Lane(n, lane.on).access
            /\ \/ \E h : /\ c.hops = {Printed(h)}
                         /\ \/ Holds(ds.groups[f], c.dst, h)
                            \/ Lists(n, ds.on, f, c.dst) /\ h.dev = ds.on
               \/ c.dst = n.ifs[ds.on].net[f] /\ c.hops = {Hop(ds.on, ds.on)}
    BY <1>1, <1>5 DEF Copying
  <2>2. /\ ds.on \in Behind(n, lane.on) /\ ds.on \in Interfaces(n)
        /\ \A h : Holds(ds.groups[f], c.dst, h) => h.dev \in out
    BY <1>2, <2>1
  <2>3. Lists(n, ds.on, f, c.dst) => ds.on \in out
    BY <1>1, <2>2 DEF OnlyBehind
  <2>4. c.dst = n.ifs[ds.on].net[f] => ds.on \in out
    BY <1>1, <2>2 DEF OnlyBehind
  <2>5. ASSUME NEW h, c.hops = {Printed(h)},
               Holds(ds.groups[f], c.dst, h) \/ (Lists(n, ds.on, f, c.dst) /\ h.dev = ds.on)
        PROVE  c.hops # {} /\ \A x \in c.hops : x.dev \in out
    <3>1. h.dev \in out
      BY <2>2, <2>3, <2>5
    <3>2. Printed(h).dev = h.dev
      BY DEF Printed, Hop
    <3> QED BY <2>5, <3>1, <3>2
  <2>6. ASSUME c.dst = n.ifs[ds.on].net[f], c.hops = {Hop(ds.on, ds.on)}
        PROVE  c.hops # {} /\ \A x \in c.hops : x.dev \in out
    BY <2>4, <2>6 DEF Hop
  <2> QED BY <1>1, <2>1, <2>5, <2>6 DEF Leaves
<1>6. ~Blocking(lane, c)
  BY <1>1 DEF Blocking
<1> QED BY <1>1, <1>3, <1>4, <1>5, <1>6

\* Whatever leads out of a table of a lane by default.
LEMMA DefaultRoute ==
  ASSUME NEW n, WellShaped(n), NEW f \in Families, NEW lane \in LaneSet(n), HasDefault(lane, f),
         NEW q, LaneRoute(n, lane, f, q), q.dst = Default
  PROVE  q.hops = ToSet(lane.groups[f][Default])
<1>1. PICK c : /\ c.fam = f /\ q.dst = c.dst /\ q.hops = c.hops
               /\ Carrying(lane, c) \/ Attaching(n, lane, c) \/ Copying(n, lane, c)
                  \/ Blocking(lane, c)
  BY DEF LaneRoute
<1>2. \A i \in Interfaces(n) : n.ifs[i].net[f] # Default
  BY DEF WellShaped
<1>3. ~Attaching(n, lane, c)
  BY <1>1, <1>2 DEF Attaching, WellShaped
<1>4. ~Copying(n, lane, c)
  BY <1>1, <1>2, LaneFacts DEF Copying
<1>5. ~Blocking(lane, c)
  BY <1>1, NoGroupsIs DEF Blocking, HasDefault
<1> QED BY <1>1, <1>3, <1>4, <1>5 DEF Carrying

\* A table of a lane leads to subnets of the node only.
LEMMA TableSubnets ==
  ASSUME NEW n, WellShaped(n), NEW f \in Families, NEW lane \in LaneSet(n),
         NEW q, LaneRoute(n, lane, f, q)
  PROVE  q.dst \in {Default} \cup Subnets(n, f)
<1>1. PICK c : /\ c.fam = f /\ q.dst = c.dst /\ q.hops = c.hops
               /\ Carrying(lane, c) \/ Attaching(n, lane, c) \/ Copying(n, lane, c)
                  \/ Blocking(lane, c)
  BY DEF LaneRoute
<1>2. \A r \in ToSet(Routes(n, f)) : r.route.dst \in Subnets(n, f)
  BY DEF Subnets
<1>3. \A i \in Interfaces(n) : HasSubnet(n, i, f) => n.ifs[i].net[f] \in Subnets(n, f)
  BY DEF Subnets, ConnectedPrefixes, HasSubnet
<1>4. ASSUME NEW other \in LaneSet(n), NEW h, Holds(other.groups[f], c.dst, h)
      PROVE  c.dst \in Subnets(n, f)
  <2>1. PICK r \in ToSet(Routes(n, f)) : Explains(n, other.on, f, r, c.dst, h)
    BY <1>4, LaneRoutes
  <2> QED BY <1>2, <2>1 DEF Explains
<1>5. CASE Carrying(lane, c)
  <2>1. WellGrouped(lane.groups[f]) /\ c.dst \in DOMAIN lane.groups[f]
    BY <1>1, <1>5, LaneRoutes DEF Carrying
  <2>2. \E h : Holds(lane.groups[f], c.dst, h)
    BY <2>1, DomainHolds
  <2> QED BY <1>1, <1>4, <2>2
<1>6. CASE Attaching(n, lane, c)
  BY <1>1, <1>3, <1>6 DEF Attaching, WellShaped
<1>7. CASE Copying(n, lane, c)
  <2>1. PICK ds \in LaneSet(n) :
            \/ \E h : Holds(ds.groups[f], c.dst, h) \/ Lists(n, ds.on, f, c.dst)
            \/ HasSubnet(n, ds.on, f) /\ c.dst = n.ifs[ds.on].net[f]
    BY <1>1, <1>7 DEF Copying
  <2>2. Lists(n, ds.on, f, c.dst) => c.dst \in Subnets(n, f)
    BY <1>2 DEF Lists
  <2>3. ds.on \in Interfaces(n)
    BY LaneFacts
  <2> QED BY <1>1, <1>3, <1>4, <2>1, <2>2, <2>3
<1>8. CASE Blocking(lane, c)
  BY <1>1, <1>8 DEF Blocking
<1> QED BY <1>1, <1>5, <1>6, <1>7, <1>8
----------------------------------------------------------------------------
\* The lanes a resolver answers by.
Answering(n, f, i) == {lane \in LaneSet(n) : Serves(lane, i) /\ HasDefault(lane, f)}

\* What a resolver sends meets its own rules only.
LEMMA ResolverRules ==
  ASSUME NEW n, NEW k, NEW cs, Settled(n, k, cs), AddressesApart(n), ResolversFit(n),
         NEW f \in Families, NEW i \in ToSet(n.resolverSources), HasSubnet(n, i, f), NEW dst,
         NEW q, RuleStems(n, f, q), RuleMatches(q, Packet(n.ifs[i].self[f], dst, AnyDevice))
  PROVE  \E lane \in Answering(n, f, i) : q.table = lane.table
<1>1. /\ q.iif = AnyDevice /\ q.from \in {Default, n.ifs[i].self[f]}
      /\ RuleOf(n, q) /\ q.fam = f
  BY DEF RuleMatches, Covers, Packet, RuleStems
<1>2. WellShaped(n)
  BY DEF Settled
<1>3. \A j \in Interfaces(n) : j # AnyDevice
  BY <1>2, InterfacesAre DEF AnyDevice
<1>4. ~Selecting(n, q)
  <2> SUFFICES ASSUME NEW t \in ToSet(n.selectors),
                      q = Rule(t.fam, t.src, t.dst, t.incoming, t.priority, t.table, FALSE)
               PROVE  FALSE
    BY DEF Selecting
  <2>1. q.iif = t.incoming
    BY DEF Rule
  <2> QED BY <1>1, <2>1, SelectorStands
<1>5. PICK lane \in LaneSet(n) : BySource(n, lane, q) \/ FromResolver(n, lane, q)
                                 \/ Claiming(n, lane, q) \/ Denying(lane, q)
  BY <1>1, <1>4 DEF RuleOf
<1>6. ~BySource(n, lane, q) /\ ~Claiming(n, lane, q)
  BY <1>1, <1>3 DEF BySource, Claiming
<1>7. ~Denying(lane, q)
  <2>1. lane.on # AnyDevice
    BY <1>2, <1>3, LaneFacts
  <2> QED BY <1>1, <2>1 DEF Denying, UnscopedRule, Rule
<1>8. PICK b \in ToSet(n.resolverSources) :
          /\ HasSubnet(n, b, f) /\ Serves(lane, b) /\ HasDefault(lane, f)
          /\ q = Rule(f, n.ifs[b].self[f], Default, AnyDevice,
                      lane.priority, lane.table, FALSE)
  BY <1>1, <1>5, <1>6, <1>7 DEF FromResolver
<1>9. q.from = n.ifs[b].self[f] /\ q.table = lane.table
  BY <1>8 DEF Rule
<1>10. n.ifs[b].self[f] # Default
  BY <1>2, <1>8 DEF AddressesApart, WellShaped
<1>11. b = i
  BY <1>1, <1>8, <1>9, <1>10 DEF ResolversFit
<1> QED BY <1>8, <1>9, <1>11 DEF Answering

\* The rule and the route that let a resolver answer by a lane.
LEMMA ResolverStands ==
  ASSUME NEW n, NEW k, NEW cs, Settled(n, k, cs), NEW f \in Families,
         NEW i \in ToSet(n.resolverSources), HasSubnet(n, i, f), NEW lane \in Answering(n, f, i)
  PROVE  /\ Rule(f, n.ifs[i].self[f], Default, AnyDevice, lane.priority, lane.table, FALSE)
            \in ToSet(k[f].rules)
         /\ Has(k[f], lane.table, n.ifs[i].net[f]) /\ Has(k[f], lane.table, Default)
<1>1. /\ WellShaped(n) /\ Stems(n, f, cs, k[f]) /\ lane \in LaneSet(n)
      /\ Serves(lane, i) /\ HasDefault(lane, f) /\ ToSet(LaneTables(n, lane)) \subseteq cs
  BY KernelStems DEF Settled, Answering
<1>2. PICK rules : rules = OwnSourceRules(n, lane, f, <<lane.on>> \o lane.shared)
  OBVIOUS
<1>3. ToSet(rules) \subseteq cs
  <2>1. lane.groups[f] # NoGroups
    BY <1>1, NoGroupsIs DEF HasDefault
  <2> QED BY <1>1, <1>2, <2>1, FamilyTableIs, LaneTablesAre
<1>4. PICK r, c : /\ r = Route(f, lane.table, n.ifs[i].net[f], {Hop(OnLink, i)})
                  /\ c = Rule(f, n.ifs[i].self[f], Default, AnyDevice,
                              lane.priority, lane.table, FALSE)
  OBVIOUS
<1>5. r \in cs /\ c \in cs
  <2>1. r \in ToSet(rules) /\ c \in ToSet(rules)
    BY <1>1, <1>2, <1>4, OwnSourceRulesAre
  <2> QED BY <1>3, <2>1
<1>6. /\ r.op = "route" /\ r.fam = f /\ r.table = lane.table /\ r.dst = n.ifs[i].net[f]
      /\ r.hops = {Hop(OnLink, i)} /\ c.op = "rule" /\ c.fam = f
  BY <1>4 DEF Route, Rule
<1>7. Parsed(r)
  BY <1>6 DEF Parsed, Hop, OnLink, Garbled
<1>8. Has(k[f], lane.table, Default)
  BY <1>1, TableStands DEF HasDefault
<1> QED BY <1>1, <1>4, <1>5, <1>6, <1>7, <1>8 DEF Stems

\* A resolver that one of its lanes gives a default route answers its own subnet
\* directly, whatever that lane carries, and everyone else by the default route
\* of a lane it serves.
THEOREM ResolverAnswers ==
  Spec => []((TablesApart(node) /\ AddressesApart(node) /\ ResolversFit(node))
             => ResolverAnswersFindTheirWay)
<1>1. IInv => ((TablesApart(node) /\ AddressesApart(node) /\ ResolversFit(node))
               => ResolverAnswersFindTheirWay)
  <2> SUFFICES ASSUME IInv, Ready, TablesApart(node), AddressesApart(node), ResolversFit(node),
                      NEW i \in ToSet(node.resolverSources), NEW f \in Families,
                      HasSubnet(node, i, f),
                      NEW m \in DOMAIN lanes, HasDefault(lanes[m], f), Serves(lanes[m], i)
               PROVE  LET self == node.ifs[i].self[f]
                          out(dst) == Devices(kernel[f], Packet(self, dst, AnyDevice))
                      IN  /\ out(node.ifs[i].net[f]) = {i}
                          /\ \E j \in DOMAIN lanes :
                                 /\ Serves(lanes[j], i)
                                 /\ out(World) = {h.dev : h \in ToSet(lanes[j].groups[f][Default])}
    BY DEF ResolverAnswersFindTheirWay
  <2>1. PICK n, k, cs, K : n = node /\ k = kernel /\ cs = Commands /\ K = k[f]
    OBVIOUS
  <2>2. /\ Settled(n, k, cs) /\ WellShaped(n) /\ Stems(n, f, cs, K)
        /\ TablesApart(n) /\ AddressesApart(n) /\ ResolversFit(n)
        /\ i \in ToSet(n.resolverSources) /\ HasSubnet(n, i, f) /\ i \in Interfaces(n)
    <3>1. Settled(n, k, cs) /\ TablesApart(n) /\ AddressesApart(n) /\ ResolversFit(n)
      BY <2>1, ReadyIsSettled
    <3>2. WellShaped(n)
      BY <3>1 DEF Settled
    <3>3. Stems(n, f, cs, K)
      BY <2>1, <3>1, KernelStems
    <3>4. i \in ToSet(n.resolverSources) /\ HasSubnet(n, i, f) /\ i \in Interfaces(n)
      BY <2>1, <3>2 DEF WellShaped
    <3> QED BY <3>1, <3>2, <3>3, <3>4
  <2>3. PICK mine : mine = lanes[m]
    OBVIOUS
  <2>4. mine \in Answering(n, f, i)
    <3>1. mine \in ToSet(lanes)
      BY <2>3 DEF ToSet
    <3> QED BY <2>1, <2>3, <3>1, ReadyIsSettled DEF Answering
  <2>5. PICK self, net : self = n.ifs[i].self[f] /\ net = n.ifs[i].net[f]
    OBVIOUS
  <2>6. ASSUME NEW dst
        PROVE  \E lane \in Answering(n, f, i) :
                   /\ DecidingTable(K, Packet(self, dst, AnyDevice)) = lane.table
                   /\ Has(K, lane.table, net) /\ Has(K, lane.table, Default)
    <3>1. PICK p : p = Packet(self, dst, AnyDevice)
      OBVIOUS
    <3>2. PICK T : T = {lane.table : lane \in Answering(n, f, i)}
      OBVIOUS
    <3>3. PICK c : c = Rule(f, self, Default, AnyDevice, mine.priority, mine.table, FALSE)
      OBVIOUS
    <3>4. c \in ToSet(K.rules) /\ Has(K, mine.table, Default)
      BY <2>1, <2>2, <2>4, <2>5, <3>3, ResolverStands
    <3>5. Decides(K, p, c)
      BY <3>1, <3>3, <3>4 DEF Decides, RuleMatches, Covers, Packet, Rule
    <3>6. ASSUME NEW q \in ToSet(K.rules), Decides(K, p, q) PROVE q.table \in T
      <4>1. RuleStems(n, f, q)
        BY <2>2 DEF Stems
      <4>2. RuleMatches(q, Packet(n.ifs[i].self[f], dst, AnyDevice))
        BY <2>5, <3>1, <3>6 DEF Decides
      <4>3. \E lane \in Answering(n, f, i) : q.table = lane.table
        BY <2>2, <4>1, <4>2, ResolverRules
      <4> QED BY <3>2, <4>3
    <3>7. DecidingTable(K, p) \in T
      <4>1. IsSequence(K.rules) /\ \A r \in ToSet(K.rules) : r.priority \in Nat
        BY <2>2 DEF Stems, RuleStems
      <4> QED BY <3>4, <3>5, <3>6, <4>1, DecidingIs
    <3>8. PICK lane \in Answering(n, f, i) : DecidingTable(K, p) = lane.table
      BY <3>2, <3>7
    <3> QED BY <2>1, <2>2, <2>5, <3>1, <3>8, ResolverStands
  <2>7. ASSUME NEW lane \in Answering(n, f, i), NEW q \in K.routes, q.table = lane.table
        PROVE  LaneRoute(n, lane, f, q)
    BY <2>2, <2>7, LaneRouteIs DEF Answering, Stems
  <2>8. Devices(K, Packet(self, net, AnyDevice)) = {i}
    <3>1. PICK p : p = Packet(self, net, AnyDevice)
      OBVIOUS
    <3>2. PICK lane \in Answering(n, f, i) : DecidingTable(K, p) = lane.table /\ Has(K, lane.table, net)
      BY <2>6, <3>1
    <3>3. PICK found : found = Matching(K, lane.table, net)
      OBVIOUS
    <3>4. found # {} /\ \A q \in found : q \in K.routes /\ q.table = lane.table /\ q.dst = net
      BY <3>2, <3>3, MatchingIs
    <3>5. ASSUME NEW q \in found PROVE Leaves(q, {i})
      <4>1. lane \in LaneSet(n) /\ Serves(lane, i)
        BY DEF Answering
      <4>2. q.dst # Default
        BY <2>2, <2>5, <3>4 DEF WellShaped
      <4>3. OnlyBehind(n, f, net, {i}, lane.on)
        <5>1. lane.on \in LaneLinks(n) /\ lane.shared = SharedInterfaces(n, lane.on)
          BY <2>2, <4>1, LaneFacts
        <5>2. i = lane.on \/ Contains(SharedInterfaces(n, lane.on), i)
          BY <4>1, <5>1 DEF Serves
        <5> QED BY <2>2, <2>5, <5>1, <5>2 DEF ResolversFit
      <4>4. LaneRoute(n, lane, f, q)
        BY <2>7, <3>4
      <4>5. OnlyBehind(n, f, q.dst, {i}, lane.on)
        BY ONLY <3>4, <4>3
      <4> QED BY ONLY <2>2, <4>1, <4>2, <4>4, <4>5, TableBehind, f \in Families
    <3>6. Lookup(K, p) = found
      BY <3>1, <3>2, <3>3 DEF Lookup, Packet
    <3>7. \A h \in Hops(K, p) : h.dev = i
      BY <3>5, <3>6 DEF Hops, Leaves
    <3>8. Hops(K, p) # {}
      BY <3>4, <3>5, <3>6 DEF Hops, Leaves
    <3> QED BY <3>1, <3>7, <3>8 DEF Devices
  <2>9. \E lane \in Answering(n, f, i) :
            Devices(K, Packet(self, World, AnyDevice)) = {h.dev : h \in ToSet(lane.groups[f][Default])}
    <3>1. PICK p : p = Packet(self, World, AnyDevice)
      OBVIOUS
    <3>2. PICK lane \in Answering(n, f, i) :
              DecidingTable(K, p) = lane.table /\ Has(K, lane.table, Default)
      BY <2>6, <3>1
    <3>3. PICK found : found = Matching(K, lane.table, World)
      OBVIOUS
    <3>4. lane \in LaneSet(n) /\ HasDefault(lane, f)
      BY DEF Answering
    <3>5. World \notin {Default} \cup Subnets(n, f)
      BY <2>2 DEF ResolversFit, World, Default
    <3>6. found # {} /\ \A q \in found : q.hops = ToSet(lane.groups[f][Default])
      <4>1. found # {} /\ \A q \in found :
                               q \in K.routes /\ q.table = lane.table /\ q.dst \in {World, Default}
        BY <3>2, <3>3, MatchingIs
      <4>2. ASSUME NEW q \in found PROVE q.hops = ToSet(lane.groups[f][Default])
        <5>1. LaneRoute(n, lane, f, q)
          BY <2>7, <4>1
        <5>2. q.dst \in {Default} \cup Subnets(n, f)
          BY <2>2, <3>4, <5>1, TableSubnets
        <5>3. q.dst = Default
          BY <3>5, <4>1, <5>2
        <5> QED BY <2>2, <3>4, <5>1, <5>3, DefaultRoute
      <4> QED BY <4>1, <4>2
    <3>7. Lookup(K, p) = found
      BY <3>1, <3>2, <3>3 DEF Lookup, Packet
    <3>8. Hops(K, p) = ToSet(lane.groups[f][Default])
      BY <3>6, <3>7 DEF Hops
    <3> QED BY <3>1, <3>8 DEF Devices
  <2>10. PICK lane \in Answering(n, f, i) :
            Devices(K, Packet(self, World, AnyDevice)) = {h.dev : h \in ToSet(lane.groups[f][Default])}
    BY <2>9
  <2>11. \E j \in DOMAIN lanes : lanes[j] = lane
    <3>1. lane \in ToSet(lanes)
      BY <2>1, ReadyIsSettled DEF Answering
    <3> QED BY <3>1 DEF ToSet
  <2>12. PICK j \in DOMAIN lanes : lanes[j] = lane
    BY <2>11
  <2>13. Serves(lanes[j], i)
    BY <2>12 DEF Answering
  <2> QED BY <2>1, <2>5, <2>8, <2>10, <2>12, <2>13
<1> QED BY <1>1, Inductive, PTL
----------------------------------------------------------------------------
\* What enters on the interface of a lane for a subnet is not selected by whom it
\* comes from, and the lane's table has the subnet.
Directed(n, f, K, lane, dst) ==
    /\ dst # Default
    /\ SourcePrefixes(n, lane.on, f, TRUE) = {}
    /\ \A s \in ToSet(n.selectors) : <<s.fam, s.incoming, s.dst>> # <<f, lane.on, dst>>
    /\ Has(K, lane.table, dst)

\* A rule that matches what enters on an interface is a lane's that is asked about
\* it, or selects.
Asking(n, i, q, lane) ==
    /\ lane.on \in Asked(n, i)
    /\ BySource(n, lane, q) \/ Claiming(n, lane, q) \/ Denying(lane, q)

LEMMA MatchingRules ==
  ASSUME NEW n, NEW k, NEW cs, Settled(n, k, cs), AddressesApart(n), NEW f \in Families, NEW i \in Interfaces(n),
         NEW src \in ({World} \cup Subnets(n, f)) \ {Default}, NEW dst,
         NEW q, RuleStems(n, f, q), RuleMatches(q, Packet(src, dst, i))
  PROVE  /\ RuleOf(n, q) /\ q.fam = f
         /\ q.iif = i /\ q.from \in {Default, src} /\ q.to \in {Default, dst}
         /\ Selecting(n, q) \/ \E lane \in LaneSet(n) : Asking(n, i, q, lane)
<1>1. /\ q.iif \in {AnyDevice, i} /\ q.from \in {Default, src} /\ q.to \in {Default, dst}
      /\ RuleOf(n, q) /\ q.fam = f /\ WellShaped(n)
  BY DEF RuleMatches, Covers, Packet, RuleStems, Settled
<1>2. \A j \in Interfaces(n) : j # AnyDevice
  BY <1>1, InterfacesAre DEF AnyDevice
<1>3. ASSUME Selecting(n, q) PROVE q.iif = i
  <2>1. PICK t \in ToSet(n.selectors) :
            q = Rule(t.fam, t.src, t.dst, t.incoming, t.priority, t.table, FALSE)
    BY <1>3 DEF Selecting
  <2>2. q.iif = t.incoming
    BY <2>1 DEF Rule
  <2>3. t.incoming # AnyDevice
    BY SelectorStands
  <2> QED BY <1>1, <2>2, <2>3
<1>4. ASSUME ~Selecting(n, q)
      PROVE  q.iif = i /\ \E lane \in LaneSet(n) : Asking(n, i, q, lane)
  <2>1. PICK lane \in LaneSet(n) : BySource(n, lane, q) \/ FromResolver(n, lane, q)
                                   \/ Claiming(n, lane, q) \/ Denying(lane, q)
    BY <1>1, <1>4 DEF RuleOf
  <2>2. /\ lane.on \in LaneLinks(n) /\ lane.on \in Interfaces(n)
        /\ lane.shared = SharedInterfaces(n, lane.on)
    BY <1>1, LaneFacts
  <2>3. ~FromResolver(n, lane, q)
    BY <1>1, ResolverApart
  <2>4. q.iif = i
    <3>1. Denying(lane, q) => q.iif = lane.on
      BY DEF Denying, UnscopedRule, Rule
    <3>2. BySource(n, lane, q) \/ Claiming(n, lane, q) => q.iif \in Interfaces(n)
      BY DEF BySource, Claiming
    <3> QED BY <1>1, <1>2, <2>1, <2>2, <2>3, <3>1, <3>2
  <2>5. CASE BySource(n, lane, q)
    <3>1. lane.on = i \/ Contains(lane.shared, i)
      BY <2>4, <2>5 DEF BySource
    <3>2. lane.on \in Asked(n, i)
      BY <2>2, <3>1 DEF Asked, Behind
    <3> QED BY <2>4, <2>5, <3>2 DEF Asking
  <2>6. CASE Claiming(n, lane, q)
    <3>1. \/ Contains(lane.shared, i)
          \/ Lane(n, lane.on).access # None /\ Lane(n, i).access = Lane(n, lane.on).access
      BY <2>4, <2>6 DEF Claiming
    <3>2. lane.on \in Asked(n, i)
      BY <2>2, <3>1 DEF Asked, Behind
    <3> QED BY <2>4, <2>6, <3>2 DEF Asking
  <2>7. CASE Denying(lane, q)
    <3>1. lane.on = i
      BY <2>4, <2>7 DEF Denying, UnscopedRule, Rule
    <3>2. lane.on \in Asked(n, i)
      BY <2>2, <3>1 DEF Asked, Behind
    <3> QED BY <2>4, <2>7, <3>2 DEF Asking
  <2> QED BY <2>1, <2>3, <2>5, <2>6, <2>7
<1> QED BY <1>1, <1>3, <1>4

\* The table that a rule asks about what is so directed.
LEMMA DirectedRules ==
  ASSUME NEW n, NEW k, NEW cs, Settled(n, k, cs), TablesApart(n), AddressesApart(n),
         NEW f \in Families, NEW own \in LaneSet(n), NEW dst, Directed(n, f, k[f], own, dst),
         NEW src \in ({World} \cup Subnets(n, f)) \ {Default},
         NEW q, RuleStems(n, f, q), RuleMatches(q, Packet(src, dst, own.on))
  PROVE  \E lane \in LaneSet(n) :
             q.table = lane.table /\ lane.on \in Asked(n, own.on) /\ Has(k[f], lane.table, dst)
<1>1. WellShaped(n) /\ own.on \in Interfaces(n)
  BY LaneFacts DEF Settled
<1>2. /\ dst # Default /\ SourcePrefixes(n, own.on, f, TRUE) = {}
      /\ \A s \in ToSet(n.selectors) : <<s.fam, s.incoming, s.dst>> # <<f, own.on, dst>>
      /\ Has(k[f], own.table, dst)
  BY DEF Directed
<1>3. /\ q.fam = f /\ q.iif = own.on /\ q.to \in {Default, dst}
      /\ Selecting(n, q) \/ \E lane \in LaneSet(n) : Asking(n, own.on, q, lane)
  BY <1>1, MatchingRules DEF Settled
<1>4. ~Selecting(n, q)
  <2> SUFFICES ASSUME NEW t \in ToSet(n.selectors),
                      q = Rule(t.fam, t.src, t.dst, t.incoming, t.priority, t.table, FALSE)
               PROVE  FALSE
    BY DEF Selecting
  <2>1. q.fam = t.fam /\ q.to = t.dst /\ q.iif = t.incoming
    BY DEF Rule
  <2>2. t.dst # Default
    BY <1>1, SelectorStands
  <2> QED BY <1>2, <1>3, <2>1, <2>2
<1>5. PICK lane \in LaneSet(n) : Asking(n, own.on, q, lane)
  BY <1>3, <1>4
<1>6. /\ lane.on \in Asked(n, own.on)
      /\ BySource(n, lane, q) \/ Claiming(n, lane, q) \/ Denying(lane, q)
  BY <1>5 DEF Asking
<1>7. CASE BySource(n, lane, q)
  <2>1. SourcePrefixes(n, own.on, f, FALSE) \subseteq SourcePrefixes(n, own.on, f, TRUE)
    BY DEF SourcePrefixes
  <2>2. lane.on = own.on /\ q.table = lane.table
    BY <1>2, <1>3, <1>7, <2>1 DEF BySource
  <2>3. lane = own
    BY <1>1, <2>2, OneLane
  <2> QED BY <1>2, <1>6, <2>2, <2>3
<1>8. CASE Claiming(n, lane, q)
  <2>1. q.table = lane.table
    <3>1. q = Rule(q.fam, Default, q.to, q.iif, q.priority, lane.table, FALSE)
      BY <1>8 DEF Claiming
    <3> QED BY <3>1 DEF Rule
  <2>2. q.to \in DOMAIN lane.groups[f] \ {Default}
    BY <1>3, <1>8 DEF Claiming
  <2>3. dst \in DOMAIN lane.groups[f]
    BY <1>3, <2>2
  <2>4. Has(k[f], lane.table, dst)
    BY <2>3, TableStands
  <2> QED BY <1>6, <2>1, <2>4
<1>9. CASE Denying(lane, q)
  <2>1. lane.on = own.on /\ q.table = lane.table
    BY <1>3, <1>9 DEF Denying, UnscopedRule, Rule
  <2>2. lane = own
    BY <1>1, <2>1, OneLane
  <2> QED BY <1>2, <1>6, <2>1, <2>2
<1> QED BY <1>6, <1>7, <1>8, <1>9

\* A rule sends whatever enters on an interface for a subnet to a table that has it.
Sends(K, iif, dst, c) ==
    /\ c \in ToSet(K.rules)
    /\ c.from = Default /\ c.to \in {Default, dst} /\ c.iif = iif /\ c.suppress = FALSE
    /\ Has(K, c.table, dst)

\* Every table that could be asked has a route for the subnet itself, and leads out
\* by the interfaces that the subnet is behind.
LEMMA DirectedReaches ==
  ASSUME NEW n, NEW k, NEW cs, Settled(n, k, cs), TablesApart(n), AddressesApart(n),
         NEW f \in Families, NEW own \in LaneSet(n), NEW dst, Directed(n, f, k[f], own, dst),
         NEW src \in ({World} \cup Subnets(n, f)) \ {Default},
         NEW c, Sends(k[f], own.on, dst, c),
         NEW out, \A t \in Asked(n, own.on) : OnlyBehind(n, f, dst, out, t)
  PROVE  /\ Devices(k[f], Packet(src, dst, own.on)) # {}
         /\ Devices(k[f], Packet(src, dst, own.on)) \subseteq out
<1>1. PICK K, p : K = k[f] /\ p = Packet(src, dst, own.on)
  OBVIOUS
<1>2. WellShaped(n) /\ Stems(n, f, cs, K)
  BY <1>1, KernelStems DEF Settled
<1>3. p.src = src /\ p.dst = dst /\ p.iif = own.on
  BY <1>1 DEF Packet
<1>4. PICK T : T = {t.table : t \in {lane \in LaneSet(n) : /\ lane.on \in Asked(n, own.on)
                                                          /\ Has(K, lane.table, dst)}}
  OBVIOUS
<1>5. ASSUME NEW q \in ToSet(K.rules), Decides(K, p, q) PROVE q.table \in T
  <2>1. RuleStems(n, f, q)
    BY <1>2 DEF Stems
  <2>2. RuleMatches(q, Packet(src, dst, own.on))
    BY <1>1, <1>5 DEF Decides
  <2>3. \E lane \in LaneSet(n) :
           q.table = lane.table /\ lane.on \in Asked(n, own.on) /\ Has(k[f], lane.table, dst)
    BY <2>1, <2>2, DirectedRules
  <2> QED BY <1>1, <1>4, <2>3
<1>6. c \in ToSet(K.rules) /\ Decides(K, p, c)
  BY <1>1, <1>3 DEF Sends, Decides, RuleMatches, Covers
<1>7. DecidingTable(K, p) \in T
  <2>1. IsSequence(K.rules) /\ \A r \in ToSet(K.rules) : r.priority \in Nat
    BY <1>2 DEF Stems, RuleStems
  <2> QED BY <1>5, <1>6, <2>1, DecidingIs
<1>8. PICK lane \in LaneSet(n) :
          DecidingTable(K, p) = lane.table /\ lane.on \in Asked(n, own.on) /\ Has(K, lane.table, dst)
  BY <1>4, <1>7
<1>9. PICK found : found = Matching(K, lane.table, dst)
  OBVIOUS
<1>10. found # {} /\ \A q \in found : q \in K.routes /\ q.table = lane.table /\ q.dst = dst
  BY <1>8, <1>9, MatchingIs
<1>11. ASSUME NEW q \in found PROVE Leaves(q, out)
  <2>1. RouteStems(n, f, q) /\ q.table = lane.table /\ q.dst = dst
    BY <1>2, <1>10 DEF Stems
  <2>2. LaneRoute(n, lane, f, q)
    BY <1>2, <2>1, LaneRouteIs
  <2>3. q.dst # Default /\ OnlyBehind(n, f, q.dst, out, lane.on)
    BY <1>8, <2>1 DEF Directed
  <2> QED BY ONLY <1>2, <2>2, <2>3, TableBehind, f \in Families, lane \in LaneSet(n)
<1>12. Lookup(K, p) = found
  BY <1>3, <1>8, <1>9 DEF Lookup
<1>13. Hops(K, p) # {} /\ \A h \in Hops(K, p) : h.dev \in out
  BY <1>10, <1>11, <1>12 DEF Hops, Leaves
<1> QED BY <1>1, <1>13 DEF Devices
----------------------------------------------------------------------------
\* A lane with its downstream side, and a subnet behind it.
Returning(n, f, up, down, dst) ==
    /\ up \in LaneSet(n) /\ down \in LaneSet(n) /\ ~Denied(up)
    /\ Sides(n, up.on, down.on) /\ Lists(n, down.on, f, dst)

LEMMA LaneFor ==
  ASSUME NEW n, NEW k, NEW cs, Settled(n, k, cs), NEW i \in Interfaces(n),
         Lane(n, i).access # None
  PROVE  \E lane \in LaneSet(n) : lane.on = i
<1>1. i \in LaneLinks(n)
  BY DEF Settled, LaneLinks, IsLane
<1>2. LaneData(n, i) \in LaneSet(n)
  BY <1>1 DEF LaneSet
<1>3. LaneData(n, i).on = i
  BY DEF LaneData
<1> QED BY <1>2, <1>3

\* What the premise says of a subnet that is behind the downstream side.
LEMMA ReturnFits ==
  ASSUME NEW n, WellShaped(n), ReturnsFit(n), NEW f \in Families, NEW up, NEW down, NEW dst,
         Returning(n, f, up, down, dst)
  PROVE  /\ SourcePrefixes(n, up.on, f, TRUE) = {}
         /\ dst # Default
         /\ \A t \in Asked(n, up.on) : OnlyBehind(n, f, dst, {down.on}, t)
         /\ \A s \in ToSet(n.selectors) : <<s.fam, s.incoming, s.dst>> # <<f, up.on, dst>>
         /\ dst \in DOMAIN down.groups[f]
<1>1. /\ up \in LaneSet(n) /\ down \in LaneSet(n)
      /\ Sides(n, up.on, down.on) /\ Lists(n, down.on, f, dst)
  BY DEF Returning
<1>2. up.on \in Interfaces(n) /\ down.on \in Interfaces(n)
  BY <1>1, LaneFacts
<1>3. PICK r \in ToSet(Routes(n, f)) :
          /\ r.on = down.on /\ ~r.route.policyOnly /\ r.route.dst = dst /\ dst # Default
          /\ EffectiveVia(n, down.on, r.route, f) # OnLink
  BY <1>1 DEF Lists
<1>4. /\ SourcePrefixes(n, up.on, f, TRUE) = {}
      /\ Takes(n, down.on, r, f)
      /\ \A t \in Asked(n, up.on) : OnlyBehind(n, f, dst, {down.on}, t)
      /\ \A s \in ToSet(n.selectors) : <<s.fam, s.incoming, s.dst>> # <<f, up.on, dst>>
  BY <1>1, <1>2, <1>3 DEF ReturnsFit
<1>5. dst \in DOMAIN down.groups[f]
  BY <1>1, <1>3, <1>4, LaneRoutes
<1> QED BY <1>3, <1>4, <1>5

LEMMA ReturnLinked ==
  ASSUME NEW n, WellShaped(n), TablesApart(n), ReturnsFit(n), NEW f \in Families,
         NEW up, NEW down, NEW dst, Returning(n, f, up, down, dst)
  PROVE  Linked(n, up, down)
<1>1. /\ up \in LaneSet(n) /\ down \in LaneSet(n) /\ ~Denied(up) /\ Sides(n, up.on, down.on)
  BY DEF Returning
<1>2. up.table # down.table
  BY <1>1, OneLane DEF Sides
<1>3. ~Denied(down)
  <2>1. dst \in DOMAIN down.groups[f]
    BY ReturnFits
  <2> QED BY <2>1, NoGroupsIs DEF Denied
<1> QED BY <1>1, <1>2, <1>3 DEF Linked, Sides, FacesUpstream, FacesDownstream

\* The table of the upstream side leads to the subnet too.
LEMMA ReturnCopied ==
  ASSUME NEW n, NEW k, NEW cs, Settled(n, k, cs), TablesApart(n), ReturnsFit(n),
         NEW f \in Families, NEW up, NEW down, NEW dst, Returning(n, f, up, down, dst)
  PROVE  Has(k[f], up.table, dst)
<1>1. /\ WellShaped(n) /\ up \in LaneSet(n) /\ down \in LaneSet(n) /\ Lists(n, down.on, f, dst)
      /\ Stems(n, f, cs, k[f])
  BY KernelStems DEF Returning, Settled
<1>2. Linked(n, up, down)
  BY <1>1, ReturnLinked
<1>3. PICK pair : pair = [us |-> up, ds |-> down] /\ pair.us = up /\ pair.ds = down
  <2>1. PICK pair : pair = [us |-> up, ds |-> down]
    OBVIOUS
  <2> QED BY <2>1
<1>4. ToSet(Augmentation(n, pair)) \subseteq cs
  BY <1>1, <1>2, <1>3 DEF Settled
<1>5. PICK c \in ToSet(Augmentation(n, pair)) :
          c.op = "route" /\ c.fam = f /\ c.table = up.table /\ c.dst = dst /\ Parsed(c)
  <2>1. /\ ~Denied(up) /\ Lane(n, up.on).access # None
        /\ Lane(n, down.on).access = Lane(n, up.on).access
    BY <1>2 DEF Linked
  <2> QED BY <1>1, <1>3, <2>1, AugmentationIs
<1> QED BY <1>1, <1>4, <1>5 DEF Stems

\* The rule that was claimed for a subnet on the upstream side.
LEMMA ReturnClaim ==
  ASSUME NEW n, NEW k, NEW cs, Settled(n, k, cs), TablesApart(n), ReturnsFit(n),
         NEW f \in Families, NEW up, NEW down, NEW dst, Returning(n, f, up, down, dst)
  PROVE  \E c : Sends(k[f], up.on, dst, c)
<1>1. /\ WellShaped(n) /\ up \in LaneSet(n) /\ down \in LaneSet(n) /\ Stems(n, f, cs, k[f])
  BY KernelStems DEF Returning, Settled
<1>2. Linked(n, up, down) /\ dst \in DOMAIN down.groups[f] \ {Default}
  BY <1>1, ReturnLinked, ReturnFits
<1>3. PICK c \in cs : /\ c.op = "rule" /\ c.fam = f /\ c.to = dst /\ c.iif = up.on
                      /\ \E lane \in LaneSet(n) : Claiming(n, lane, c)
  <2>1. Expected(n, cs, up, down)
    BY <1>1, <1>2 DEF Settled
  <2> QED BY <1>2, <2>1 DEF Expected
<1>4. PICK lane \in LaneSet(n) : Claiming(n, lane, c)
  BY <1>3
<1>5. c = Rule(c.fam, Default, c.to, c.iif, c.priority, lane.table, FALSE)
  BY <1>4 DEF Claiming
<1>6. c.from = Default /\ c.suppress = FALSE /\ c.table = lane.table
  BY <1>5 DEF Rule
<1>7. Has(k[f], lane.table, dst)
  BY <1>3, <1>4, TableStands DEF Claiming
<1>8. c \in ToSet(k[f].rules)
  BY <1>1, <1>3 DEF Stems
<1> QED BY <1>3, <1>6, <1>7, <1>8 DEF Sends

\* What comes back from upstream for a subnet behind a lane's downstream
\* interface leaves by that interface, whoever sent it and whichever lane claimed
\* the subnet first: every table that a rule could ask has a route for the subnet
\* itself, and leads to that interface.
THEOREM ReturnsReach ==
  Spec => []((TablesApart(node) /\ AddressesApart(node) /\ ReturnsFit(node))
             => ReturnReachesDownstream)
<1>1. IInv => ((TablesApart(node) /\ AddressesApart(node) /\ ReturnsFit(node))
               => ReturnReachesDownstream)
  <2> SUFFICES ASSUME IInv, Ready, TablesApart(node), AddressesApart(node), ReturnsFit(node),
                      NEW f \in Families, NEW u \in Interfaces(node), NEW d \in Interfaces(node),
                      Sides(node, u, d), \A m \in LaneOn(u) : ~Denied(lanes[m]),
                      NEW dst \in Hosts(f), Lists(node, d, f, dst), NEW src \in Hosts(f)
               PROVE  Devices(kernel[f], Packet(src, dst, u)) = {d}
    BY DEF ReturnReachesDownstream
  <2>1. PICK n, k, cs, K : /\ n = node /\ k = kernel /\ cs = Commands
                           /\ K = k[f]
    OBVIOUS
  <2>2. /\ Settled(n, k, cs) /\ TablesApart(n) /\ AddressesApart(n) /\ ReturnsFit(n)
        /\ ToSet(lanes) = LaneSet(n)
    BY <2>1, ReadyIsSettled
  <2>3. WellShaped(n) /\ Stems(n, f, cs, K)
    BY <2>1, <2>2, KernelStems DEF Settled
  <2>4. Sides(n, u, d) /\ Lists(n, d, f, dst) /\ u \in Interfaces(n) /\ d \in Interfaces(n)
    BY <2>1
  <2>5. PICK up \in LaneSet(n) : up.on = u
    BY <2>2, <2>4, LaneFor DEF Sides
  <2>6. PICK down \in LaneSet(n) : down.on = d
    <3>1. Lane(n, d).access # None
      BY <2>4 DEF Sides
    <3> QED BY <2>2, <2>4, <3>1, LaneFor
  <2>7. Returning(n, f, up, down, dst)
    <3>1. PICK m \in DOMAIN lanes : lanes[m] = up
      BY <2>2 DEF ToSet
    <3>2. m \in LaneOn(u)
      BY <2>5, <3>1 DEF LaneOn
    <3> QED BY <2>4, <2>5, <2>6, <3>1, <3>2 DEF Returning
  <2>8. src \in ({World} \cup Subnets(n, f)) \ {Default}
    BY <2>1 DEF Hosts
  <2>9. Directed(n, f, K, up, dst)
    BY <2>1, <2>2, <2>3, <2>7, ReturnFits, ReturnCopied DEF Directed
  <2>10. PICK c : Sends(K, up.on, dst, c)
    BY <2>1, <2>2, <2>7, ReturnClaim
  <2>11. \A t \in Asked(n, up.on) : OnlyBehind(n, f, dst, {d}, t)
    BY <2>2, <2>3, <2>6, <2>7, ReturnFits
  <2>12. PICK out : out = {d}
    OBVIOUS
  <2>13. /\ Devices(K, Packet(src, dst, up.on)) # {}
         /\ Devices(K, Packet(src, dst, up.on)) \subseteq out
    <3>1. /\ Directed(n, f, k[f], up, dst) /\ Sends(k[f], up.on, dst, c)
          /\ \A t \in Asked(n, up.on) : OnlyBehind(n, f, dst, out, t)
      BY <2>1, <2>9, <2>10, <2>11, <2>12
    <3>2. /\ Devices(k[f], Packet(src, dst, up.on)) # {}
          /\ Devices(k[f], Packet(src, dst, up.on)) \subseteq out
      BY ONLY <2>2, <2>8, <3>1, DirectedReaches, f \in Families, up \in LaneSet(n)
    <3> QED BY <2>1, <3>2
  <2> QED BY <2>1, <2>5, <2>12, <2>13
<1> QED BY <1>1, Inductive, PTL
----------------------------------------------------------------------------
\* The rule that a lane has for whoever comes from behind an interface it serves.
LEMMA LaneServes ==
  ASSUME NEW n, NEW k, NEW cs, Settled(n, k, cs), NEW f \in Families, NEW lane \in LaneSet(n),
         lane.groups[f] # NoGroups, ~FacesUplink(n, lane) \/ HasDefault(lane, f),
         NEW i, Serves(lane, i), NEW from, Covering(n, lane, f, i, from)
  PROVE  ServingRule(lane, f, i, from) \in ToSet(k[f].rules)
<1>1. WellShaped(n) /\ Stems(n, f, cs, k[f]) /\ ToSet(LaneTables(n, lane)) \subseteq cs
  BY KernelStems DEF Settled
<1>2. PICK c : c = ServingRule(lane, f, i, from)
  OBVIOUS
<1>3. c \in ToSet(FamilyTable(n, lane, f))
  BY <1>1, <1>2, FamilyTableIs
<1>4. c \in cs
  BY <1>1, <1>3, LaneTablesAre
<1>5. c.op = "rule" /\ c.fam = f
  BY <1>2 DEF ServingRule, Rule
<1> QED BY <1>1, <1>2, <1>4, <1>5 DEF Stems

\* An interface that accesses share, with a subnet of one of them.
Owned(n, f, own, dst, owner) ==
    /\ Lane(n, own.on).access = None /\ Uplinks(Lane(n, own.on)) # {}
    /\ dst # Default /\ owner # None
    /\ \E r \in ToSet(Routes(n, f)) :
           /\ r.route.policyOnly /\ r.route.dst = dst
           /\ RouteLane(n, r.on, r.route).access = owner

LEMMA OwnedFits ==
  ASSUME NEW n, WellShaped(n), OwnersFit(n), NEW f \in Families, NEW own \in LaneSet(n),
         NEW dst, NEW owner, Owned(n, f, own, dst, owner)
  PROVE  /\ dst \in DOMAIN own.groups[f] /\ own.groups[f] # NoGroups
         /\ ~FacesUplink(n, own)
         /\ SourcePrefixes(n, own.on, f, TRUE) = {}
         /\ \A t \in Asked(n, own.on) : OnlyBehind(n, f, dst, Of(n, owner), t)
         /\ \A s \in ToSet(n.selectors) : <<s.fam, s.incoming, s.dst>> # <<f, own.on, dst>>
<1>1. PICK r \in ToSet(Routes(n, f)) :
          /\ r.route.policyOnly /\ r.route.dst = dst
          /\ RouteLane(n, r.on, r.route).access = owner
  BY DEF Owned
<1>2. own.on \in Of(n, None) /\ Uplinks(Lane(n, own.on)) # {} /\ dst # Default /\ owner # None
  BY LaneFacts DEF Owned, Of
<1>3. /\ \E x \in ToSet(Routes(n, f)) :
             x.on = own.on /\ x.route.dst = dst /\ Takes(n, own.on, x, f)
      /\ Lane(n, own.on).kind # "access-uplink"
      /\ SourcePrefixes(n, own.on, f, TRUE) = {}
      /\ \A t \in Asked(n, own.on) : OnlyBehind(n, f, dst, Of(n, owner), t)
      /\ \A s \in ToSet(n.selectors) : <<s.fam, s.incoming, s.dst>> # <<f, own.on, dst>>
  <2>1. OwnerFits(n, f, own.on, dst, owner)
    BY <1>1, <1>2 DEF OwnersFit
  <2> QED BY <2>1 DEF OwnerFits
<1>4. dst \in DOMAIN own.groups[f]
  BY <1>2, <1>3, LaneRoutes
<1>5. own.groups[f] # NoGroups
  BY <1>4, NoGroupsIs
<1> QED BY <1>3, <1>4, <1>5 DEF FacesUplink

LEMMA OwnedReaches ==
  ASSUME NEW n, NEW k, NEW cs, Settled(n, k, cs), TablesApart(n), AddressesApart(n), OwnersFit(n),
         NEW f \in Families, NEW own \in LaneSet(n), NEW dst, NEW owner,
         Owned(n, f, own, dst, owner), NEW src \in ({World} \cup Subnets(n, f)) \ {Default}
  PROVE  /\ Devices(k[f], Packet(src, dst, own.on)) # {}
         /\ Devices(k[f], Packet(src, dst, own.on)) \subseteq Of(n, owner)
<1>1. WellShaped(n) /\ dst # Default
  BY DEF Settled, Owned
<1>2. /\ dst \in DOMAIN own.groups[f] /\ own.groups[f] # NoGroups /\ ~FacesUplink(n, own)
      /\ SourcePrefixes(n, own.on, f, TRUE) = {}
      /\ \A t \in Asked(n, own.on) : OnlyBehind(n, f, dst, Of(n, owner), t)
      /\ \A s \in ToSet(n.selectors) : <<s.fam, s.incoming, s.dst>> # <<f, own.on, dst>>
  BY <1>1, OwnedFits
<1>3. Has(k[f], own.table, dst)
  BY <1>2, TableStands
<1>4. Directed(n, f, k[f], own, dst)
  BY <1>1, <1>2, <1>3 DEF Directed
<1>5. PICK c : c = ServingRule(own, f, own.on, Default)
  OBVIOUS
<1>6. c \in ToSet(k[f].rules)
  <2>1. SourcePrefixes(n, own.on, f, FALSE) = {}
    BY <1>2 DEF SourcePrefixes
  <2>2. Covering(n, own, f, own.on, Default) /\ Serves(own, own.on)
    BY <2>1 DEF Covering, Serves
  <2> QED BY <1>2, <1>5, <2>2, LaneServes
<1>7. Sends(k[f], own.on, dst, c)
  <2>1. c.from = Default /\ c.to = Default /\ c.iif = own.on /\ c.suppress = FALSE /\ c.table = own.table
    BY <1>5 DEF ServingRule, Rule
  <2> QED BY <1>3, <1>6, <2>1 DEF Sends
<1> QED BY ONLY <1>2, <1>4, <1>7, DirectedReaches, Settled(n, k, cs), TablesApart(n), AddressesApart(n),
               f \in Families, own \in LaneSet(n), src \in ({World} \cup Subnets(n, f)) \ {Default}

\* What enters on an interface that accesses share leaves toward the access that its
\* destination belongs to: the lane of the interface has the subnet, and every lane
\* that is asked says that it is behind that access.
THEOREM SharedFollowsOwner ==
  Spec => []((TablesApart(node) /\ AddressesApart(node) /\ OwnersFit(node))
             => SharedTrafficFindsItsOwner)
<1>1. IInv => ((TablesApart(node) /\ AddressesApart(node) /\ OwnersFit(node))
               => SharedTrafficFindsItsOwner)
  <2> SUFFICES ASSUME IInv, Ready, TablesApart(node), AddressesApart(node), OwnersFit(node),
                      NEW f \in Families, NEW i \in Interfaces(node),
                      NEW r \in ToSet(Routes(node, f)),
                      Access(i) = None, Uplinks(Lane(node, i)) # {},
                      r.route.policyOnly, r.route.dst # Default,
                      RouteLane(node, r.on, r.route).access # None,
                      NEW src \in Hosts(f)
               PROVE  LET out == Devices(kernel[f], Packet(src, r.route.dst, i))
                      IN  /\ out # {}
                          /\ \A dev \in out :
                                 Access(dev) = RouteLane(node, r.on, r.route).access
    BY DEF SharedTrafficFindsItsOwner
  <2>1. PICK n, k, cs, dst, owner :
            /\ n = node /\ k = kernel /\ cs = Commands /\ dst = r.route.dst
            /\ owner = RouteLane(node, r.on, r.route).access
    OBVIOUS
  <2>2. Settled(n, k, cs) /\ TablesApart(n) /\ AddressesApart(n) /\ OwnersFit(n)
    BY <2>1, ReadyIsSettled
  <2>3. i \in LaneLinks(n)
    <3>1. i \in Of(n, None) /\ Uplinks(Lane(n, i)) # {}
      BY <2>1 DEF Of, Access
    <3>2. r.route.dst # Default /\ RouteLane(n, r.on, r.route).access # None
      BY <2>1
    <3>3. IsLane(n, i)
      BY <2>1, <2>2, <3>1, <3>2 DEF OwnersFit, OwnerFits
    <3> QED BY <2>1, <2>2, <3>3 DEF Settled, LaneLinks
  <2>4. PICK own \in LaneSet(n) : own.on = i
    <3>1. LaneData(n, i) \in LaneSet(n)
      BY <2>3 DEF LaneSet
    <3>2. LaneData(n, i).on = i
      BY DEF LaneData
    <3> QED BY <3>1, <3>2
  <2>5. Owned(n, f, own, dst, owner)
    BY <2>1, <2>4 DEF Owned, Access
  <2>6. src \in ({World} \cup Subnets(n, f)) \ {Default}
    BY <2>1 DEF Hosts
  <2>7. /\ Devices(k[f], Packet(src, dst, own.on)) # {}
        /\ Devices(k[f], Packet(src, dst, own.on)) \subseteq Of(n, owner)
    BY <2>2, <2>5, <2>6, OwnedReaches
  <2> QED BY <2>1, <2>4, <2>7 DEF Of, Access
<1> QED BY <1>1, Inductive, PTL
----------------------------------------------------------------------------
\* A lane with a default route provides for what enters on i from a source.
Providing(n, f, lane, i, src) ==
    /\ HasDefault(lane, f)
    /\ \/ lane.on = i
       \/ Contains(lane.shared, i) /\ SourcePrefixes(n, i, f, TRUE) # {}
    /\ SourcePrefixes(n, i, f, TRUE) # {} => src \in SourcePrefixes(n, i, f, TRUE)

LEMMA ProvidingFits ==
  ASSUME NEW n, WellShaped(n), AccessesFit(n), NEW f \in Families, NEW i \in Interfaces(n),
         Lane(n, i).access # None, NEW lane \in LaneSet(n), NEW src, Providing(n, f, lane, i, src)
  PROVE  AccessFits(n, f, i)
<1>1. /\ lane.on \in LaneLinks(n) /\ lane.shared = SharedInterfaces(n, lane.on)
      /\ lane.groups[f] = LaneGroups(n, lane.on, f)
  BY LaneFacts
<1>2. Provides(n, f, lane.on, i)
  BY <1>1 DEF Provides, Providing, HasDefault
<1>3. i \in Interfaces(n) \ Of(n, None)
  BY DEF Of
<1> QED BY <1>1, <1>2, <1>3 DEF AccessesFit

LEMMA SourceSubnets ==
  ASSUME NEW n, WellShaped(n), NEW f \in Families, NEW i \in Interfaces(n)
  PROVE  SourcePrefixes(n, i, f, TRUE) \subseteq Subnets(n, f) \ {Default}
<1>1. ASSUME NEW p \in SourcePrefixes(n, i, f, TRUE)
      PROVE  p \in Subnets(n, f) /\ p # Default
  <2>1. CASE p = n.ifs[i].net[f] /\ HasSubnet(n, i, f)
    <3>1. p \in ConnectedPrefixes(n, f)
      BY <2>1 DEF ConnectedPrefixes, HasSubnet
    <3> QED BY <2>1, <3>1 DEF Subnets, WellShaped
  <2>2. CASE \E q \in ToSet(n.ifs[i].routes[f]) : q.dst # Default /\ p = q.dst
    <3>1. PICK q \in ToSet(n.ifs[i].routes[f]) : q.dst # Default /\ p = q.dst
      BY <2>2
    <3>2. IsSequence(n.ifs[i].routes[f])
      BY DEF WellShaped
    <3>3. PICK k \in 1 .. Len(n.ifs[i].routes[f]) : n.ifs[i].routes[f][k] = q
      BY <3>2, ListIs
    <3>4. PICK r : r = [on |-> i, route |-> n.ifs[i].routes[f][k]] /\ r.route = q
      <4>1. PICK r : r = [on |-> i, route |-> n.ifs[i].routes[f][k]]
        OBVIOUS
      <4> QED BY <3>3, <4>1
    <3>5. r \in ToSet(Routes(n, f))
      BY <3>4, RoutesAre
    <3> QED BY <3>1, <3>4, <3>5 DEF Subnets
  <2> QED BY <1>1, <2>1, <2>2 DEF SourcePrefixes
<1> QED BY <1>1

\* The rule of a lane that provides.
LEMMA ProvidingRule ==
  ASSUME NEW n, NEW k, NEW cs, Settled(n, k, cs), NEW f \in Families, NEW i \in Interfaces(n),
         AccessFits(n, f, i), NEW lane \in LaneSet(n), NEW src, Providing(n, f, lane, i, src)
  PROVE  \E from \in {Default, src} : ServingRule(lane, f, i, from) \in ToSet(k[f].rules)
<1>1. HasDefault(lane, f) /\ lane.groups[f] # NoGroups
  BY NoGroupsIs DEF Providing, HasDefault
<1>2. Serves(lane, i)
  BY DEF Providing, Serves
<1>3. ASSUME NEW from, Covering(n, lane, f, i, from)
      PROVE  ServingRule(lane, f, i, from) \in ToSet(k[f].rules)
  BY <1>1, <1>2, <1>3, LaneServes
<1>4. SourcePrefixes(n, i, f, FALSE) \in {{}, SourcePrefixes(n, i, f, TRUE)}
  BY DEF AccessFits
<1>5. CASE lane.on = i /\ SourcePrefixes(n, i, f, FALSE) = {}
  BY <1>3, <1>5 DEF Covering
<1>6. CASE lane.on = i /\ SourcePrefixes(n, i, f, FALSE) # {}
  <2>1. (i # lane.on) = FALSE
    BY <1>6
  <2>2. src \in SourcePrefixes(n, i, f, i # lane.on)
    BY <1>4, <1>6, <2>1 DEF Providing
  <2> QED BY <1>3, <2>2 DEF Covering
<1>7. CASE lane.on # i
  <2>1. (i # lane.on) = TRUE
    BY <1>7
  <2>2. src \in SourcePrefixes(n, i, f, i # lane.on)
    BY <1>7, <2>1 DEF Providing
  <2> QED BY <1>3, <2>2 DEF Covering
<1> QED BY <1>5, <1>6, <1>7

\* The tables that are asked, before any that ignores default routes.
Askable(n, f, i, lane) == lane.on \in Asked(n, i) /\ lane.groups[f] # NoGroups

LEMMA AccessRules ==
  ASSUME NEW n, NEW k, NEW cs, Settled(n, k, cs), AddressesApart(n), MainLast(n),
         NEW f \in Families, NEW i \in Interfaces(n), AccessFits(n, f, i),
         NEW src \in ({World} \cup Subnets(n, f)) \ {Default}, NEW dst,
         NEW q, RuleStems(n, f, q), RuleMatches(q, Packet(src, dst, i)),
         NEW first \in LaneSet(n), q.priority <= first.priority
  PROVE  \E lane \in LaneSet(n) : q.table = lane.table /\ Askable(n, f, i, lane)
<1>1. WellShaped(n)
  BY DEF Settled
<1>2. /\ RuleOf(n, q) /\ q.fam = f /\ q.iif = i
      /\ Selecting(n, q) \/ \E lane \in LaneSet(n) : Asking(n, i, q, lane)
  BY MatchingRules
<1>3. CASE Selecting(n, q)
  <2>1. PICK s \in ToSet(n.selectors) :
            q = Rule(s.fam, s.src, s.dst, s.incoming, s.priority, s.table, FALSE)
    BY <1>3 DEF Selecting
  <2>2. q.fam = s.fam /\ q.iif = s.incoming /\ q.table = s.table
    BY <2>1 DEF Rule
  <2>3. s.policy \in Asked(n, i) /\ LaneGroups(n, s.policy, f) # NoGroups
    BY <1>2, <2>2 DEF AccessFits
  <2>4. s.policy \in LaneLinks(n) /\ Alloc(n, s.policy).table = s.table
    BY <2>3, SelectorStands DEF Asked
  <2>5. PICK lane \in LaneSet(n) : lane.on = s.policy
    <3>1. LaneData(n, s.policy) \in LaneSet(n)
      BY <2>4 DEF LaneSet
    <3>2. LaneData(n, s.policy).on = s.policy
      BY DEF LaneData
    <3> QED BY <3>1, <3>2
  <2>6. lane.table = s.table /\ lane.groups[f] # NoGroups
    BY <1>1, <2>3, <2>4, <2>5, LaneFacts
  <2> QED BY <2>2, <2>3, <2>5, <2>6 DEF Askable
<1>4. CASE ~Selecting(n, q)
  <2>1. PICK lane \in LaneSet(n) : Asking(n, i, q, lane)
    BY <1>2, <1>4
  <2>2. /\ lane.on \in Asked(n, i)
        /\ BySource(n, lane, q) \/ Claiming(n, lane, q) \/ Denying(lane, q)
    BY <2>1 DEF Asking
  <2>3. CASE BySource(n, lane, q)
    <3>1. lane.groups[f] # NoGroups
      BY <1>2, <2>3 DEF BySource
    <3>2. lane.suppress = 0 \/ first.priority < lane.suppress
      BY <1>1, LaneFacts DEF MainLast
    <3>3. /\ first.priority \in Nat /\ lane.suppress \in Nat /\ q.priority \in Nat
      BY <1>1, LaneFacts DEF RuleStems
    <3>4. q.table = lane.table
      BY <2>3, <3>2, <3>3 DEF BySource
    <3> QED BY <2>2, <3>1, <3>4 DEF Askable
  <2>4. CASE Claiming(n, lane, q)
    <3>1. q.table = lane.table
      <4>1. q = Rule(q.fam, Default, q.to, q.iif, q.priority, lane.table, FALSE)
        BY <2>4 DEF Claiming
      <4> QED BY <4>1 DEF Rule
    <3>2. lane.groups[f] # NoGroups
      BY <1>2, <2>4, NoGroupsIs DEF Claiming
    <3> QED BY <2>2, <3>1, <3>2 DEF Askable
  <2>5. CASE Denying(lane, q)
    <3>1. lane.on = i /\ q.table = lane.table
      BY <1>2, <2>5 DEF Denying, UnscopedRule, Rule
    <3>2. lane.groups[f] # NoGroups
      BY <1>1, <3>1, LaneFacts DEF AccessFits
    <3> QED BY <2>2, <3>1, <3>2 DEF Askable
  <2> QED BY <2>2, <2>3, <2>4, <2>5
<1> QED BY <1>3, <1>4

\* A lane of no access that carries a destination for what enters on i.
CarriedBy(n, f, i, dst, lane) ==
    /\ Lane(n, lane.on).access = None
    /\ Contains(lane.shared, i)
    /\ dst \in DOMAIN lane.groups[f]

\* Where such a table leads.
LEMMA AskableLeads ==
  ASSUME NEW n, WellShaped(n), NEW f \in Families, NEW i \in Interfaces(n),
         Lane(n, i).access # None, AccessFits(n, f, i),
         NEW lane \in LaneSet(n), Askable(n, f, i, lane), NEW dst,
         NEW q, LaneRoute(n, lane, f, q), q.dst \in {Default, dst}
  PROVE  /\ q.hops # {}
         /\ CarriedBy(n, f, i, dst, lane) \/ Leaves(q, OwnOrShared(n, i))
<1>1. lane.on \in Asked(n, i) /\ lane.groups[f] # NoGroups
  BY DEF Askable
<1>2. /\ lane.shared = SharedInterfaces(n, lane.on)
      /\ WellGrouped(lane.groups[f])
  BY LaneFacts, LaneRoutes
<1>3. CASE q.dst = Default \/ Lane(n, lane.on).access # None
  <2>1. q.dst \in {Default} \cup Subnets(n, f)
    BY TableSubnets
  <2>2. OnlyBehind(n, f, q.dst, OwnOrShared(n, i), lane.on)
    BY <1>1, <1>3, <2>1 DEF AccessFits
  <2>3. Leaves(q, OwnOrShared(n, i))
    BY <1>1, <2>2, TableBehind
  <2> QED BY <2>3 DEF Leaves
<1>4. CASE q.dst # Default /\ Lane(n, lane.on).access = None
  <2>1. PICK c : /\ c.fam = f /\ q.dst = c.dst /\ q.hops = c.hops
                 /\ Carrying(lane, c) \/ Attaching(n, lane, c) \/ Copying(n, lane, c)
                    \/ Blocking(lane, c)
    BY DEF LaneRoute
  <2>2. ~Copying(n, lane, c) /\ ~Blocking(lane, c)
    BY <1>1, <1>4, <2>1 DEF Copying, Blocking
  <2>3. CASE Carrying(lane, c)
    <3>1. dst \in DOMAIN lane.groups[f] /\ c.hops = ToSet(lane.groups[f][dst])
      BY <1>4, <2>1, <2>3 DEF Carrying
    <3>2. c.hops # {}
      BY <1>2, <3>1 DEF WellGrouped
    <3>3. Contains(lane.shared, i)
      BY <1>1, <1>2, <1>4 DEF Asked, Behind
    <3> QED BY <1>4, <2>1, <3>1, <3>2, <3>3 DEF CarriedBy
  <2>4. CASE Attaching(n, lane, c)
    <3>1. PICK b \in ToSet(n.resolverSources) : HasSubnet(n, b, f) /\ c.hops = {Hop(OnLink, b)}
      BY <2>1, <2>4 DEF Attaching
    <3>2. b \in OwnOrShared(n, i)
      BY <3>1 DEF AccessFits
    <3> QED BY <2>1, <3>1, <3>2 DEF Hop, Leaves
  <2> QED BY <2>1, <2>2, <2>3, <2>4
<1> QED BY <1>3, <1>4

LEMMA AccessReaches ==
  ASSUME NEW n, NEW k, NEW cs, Settled(n, k, cs), TablesApart(n), AddressesApart(n), AccessesFit(n),
         NEW f \in Families, NEW i \in Interfaces(n), Lane(n, i).access # None,
         NEW first \in LaneSet(n), NEW src \in ({World} \cup Subnets(n, f)) \ {Default},
         Providing(n, f, first, i, src), NEW dst
  PROVE  /\ Devices(k[f], Packet(src, dst, i)) # {}
         /\ \/ \E lane \in LaneSet(n) : CarriedBy(n, f, i, dst, lane)
            \/ Devices(k[f], Packet(src, dst, i)) \subseteq OwnOrShared(n, i)
<1>1. PICK K, p : K = k[f] /\ p = Packet(src, dst, i)
  OBVIOUS
<1>2. WellShaped(n) /\ Stems(n, f, cs, K)
  BY <1>1, KernelStems DEF Settled
<1>3. p.src = src /\ p.dst = dst /\ p.iif = i
  BY <1>1 DEF Packet
<1>4. AccessFits(n, f, i) /\ MainLast(n)
  BY <1>2, ProvidingFits DEF AccessesFit
<1>5. PICK from \in {Default, src} : ServingRule(first, f, i, from) \in ToSet(K.rules)
  BY <1>1, <1>4, ProvidingRule
<1>6. PICK c : c = ServingRule(first, f, i, from)
  OBVIOUS
<1>7. /\ c.from = from /\ c.to = Default /\ c.iif = i /\ c.priority = first.priority
      /\ c.table = first.table /\ c.suppress = FALSE
  BY <1>6 DEF ServingRule, Rule
<1>8. Has(K, first.table, Default)
  BY <1>1, TableStands DEF Providing, HasDefault
<1>9. Decides(K, p, c)
  BY <1>3, <1>7, <1>8 DEF Decides, RuleMatches, Covers
<1>10. PICK T : T = {t.table : t \in {lane \in LaneSet(n) : Askable(n, f, i, lane)}}
  OBVIOUS
<1>11. ASSUME NEW q \in ToSet(K.rules), Decides(K, p, q), q.priority <= c.priority
       PROVE  q.table \in T
  <2>1. RuleStems(n, f, q)
    BY <1>2 DEF Stems
  <2>2. RuleMatches(q, Packet(src, dst, i)) /\ q.priority <= first.priority
    BY <1>1, <1>7, <1>11 DEF Decides
  <2>3. \E lane \in LaneSet(n) : q.table = lane.table /\ Askable(n, f, i, lane)
    BY <1>4, <2>1, <2>2, AccessRules
  <2> QED BY <1>10, <2>3
<1>12. /\ DecidingTable(K, p) \in T
       /\ Has(K, DecidingTable(K, p), dst) \/ Has(K, DecidingTable(K, p), Default)
  <2>1. IsSequence(K.rules) /\ \A r \in ToSet(K.rules) : r.priority \in Nat
    BY <1>2 DEF Stems, RuleStems
  <2> QED BY <1>3, <1>5, <1>6, <1>9, <1>11, <2>1, DecidingIs
<1>13. PICK lane \in LaneSet(n) : DecidingTable(K, p) = lane.table /\ Askable(n, f, i, lane)
  BY <1>10, <1>12
<1>14. PICK found : found = Matching(K, lane.table, dst)
  OBVIOUS
<1>15. found # {} /\ \A q \in found : q \in K.routes /\ q.table = lane.table /\ q.dst \in {dst, Default}
  BY <1>12, <1>13, <1>14, MatchingIs
<1>16. ASSUME NEW q \in found
       PROVE  q.hops # {} /\ (CarriedBy(n, f, i, dst, lane) \/ Leaves(q, OwnOrShared(n, i)))
  <2>1. RouteStems(n, f, q) /\ q.table = lane.table /\ q.dst \in {Default, dst}
    BY <1>2, <1>15 DEF Stems
  <2>2. LaneRoute(n, lane, f, q)
    BY <1>2, <2>1, LaneRouteIs
  <2> QED BY <1>2, <1>4, <1>13, <2>1, <2>2, AskableLeads
<1>17. Lookup(K, p) = found
  BY <1>3, <1>13, <1>14 DEF Lookup
<1>18. Hops(K, p) # {}
  BY <1>15, <1>16, <1>17 DEF Hops
<1>19. ~CarriedBy(n, f, i, dst, lane) => \A h \in Hops(K, p) : h.dev \in OwnOrShared(n, i)
  BY <1>16, <1>17 DEF Hops, Leaves
<1> QED BY <1>1, <1>18, <1>19 DEF Devices

\* Where what enters on an interface can come from.
LEMMA SourcesStand ==
  ASSUME NEW f \in Families, NEW i \in Interfaces(node), WellShaped(node), NEW src \in Sources(i, f)
  PROVE  /\ src \in ({World} \cup Subnets(node, f)) \ {Default}
         /\ SourcePrefixes(node, i, f, TRUE) # {} => src \in SourcePrefixes(node, i, f, TRUE)
<1>1. SourcePrefixes(node, i, f, TRUE) \subseteq Subnets(node, f) \ {Default}
  BY SourceSubnets
<1> QED BY <1>1 DEF Sources, Hosts

\* What enters on an interface of an access that has a default route finds a way, and
\* leaves by the links of that access or of none, unless a lane of none carries it:
\* every table that is asked before the main one leads there, and the rule of the lane
\* with the default route is asked before the main one.
THEOREM AccessKeepsLane ==
  Spec => []((TablesApart(node) /\ AddressesApart(node) /\ AccessesFit(node))
             => AccessTrafficKeepsItsLane)
<1>1. IInv => ((TablesApart(node) /\ AddressesApart(node) /\ AccessesFit(node))
               => AccessTrafficKeepsItsLane)
  <2> SUFFICES ASSUME IInv, Ready, TablesApart(node), AddressesApart(node), AccessesFit(node),
                      NEW f \in Families, NEW i \in Interfaces(node),
                      Access(i) # None, Served(i, f),
                      NEW src \in Sources(i, f), NEW dst \in Hosts(f) \ {src}
               PROVE  LET out == Devices(kernel[f], Packet(src, dst, i))
                      IN  /\ out # {}
                          /\ \/ Carried(i, f, dst)
                             \/ \A dev \in out : Access(dev) \in {Access(i), None}
    BY DEF AccessTrafficKeepsItsLane
  <2>1. PICK n, k, cs : n = node /\ k = kernel /\ cs = Commands
    OBVIOUS
  <2>2. /\ Settled(n, k, cs) /\ TablesApart(n) /\ AddressesApart(n) /\ AccessesFit(n)
        /\ ToSet(lanes) = LaneSet(n)
    BY <2>1, ReadyIsSettled
  <2>3. WellShaped(n)
    BY <2>2 DEF Settled
  <2>4. PICK m \in DOMAIN lanes :
            /\ HasDefault(lanes[m], f)
            /\ \/ i = lanes[m].on
               \/ Contains(lanes[m].shared, i) /\ SourcePrefixes(node, i, f, TRUE) # {}
    BY DEF Served
  <2>5. PICK first \in LaneSet(n) : first = lanes[m]
    BY <2>2, <2>4 DEF ToSet
  <2>6. /\ src \in ({World} \cup Subnets(n, f)) \ {Default}
        /\ SourcePrefixes(n, i, f, TRUE) # {} => src \in SourcePrefixes(n, i, f, TRUE)
    BY <2>1, <2>3, SourcesStand
  <2>7. Providing(n, f, first, i, src)
    BY <2>1, <2>4, <2>5, <2>6 DEF Providing
  <2>8. i \in Interfaces(n) /\ Lane(n, i).access # None
    BY <2>1 DEF Access
  <2>9. /\ Devices(k[f], Packet(src, dst, i)) # {}
        /\ \/ \E lane \in LaneSet(n) : CarriedBy(n, f, i, dst, lane)
           \/ Devices(k[f], Packet(src, dst, i)) \subseteq OwnOrShared(n, i)
    BY ONLY <2>2, <2>6, <2>7, <2>8, AccessReaches, f \in Families, first \in LaneSet(n)
  <2>10. CASE \E lane \in LaneSet(n) : CarriedBy(n, f, i, dst, lane)
    <3>1. PICK lane \in LaneSet(n) : CarriedBy(n, f, i, dst, lane)
      BY <2>10
    <3>2. PICK z \in DOMAIN lanes : lanes[z] = lane
      BY <2>2, <3>1 DEF ToSet
    <3>3. Carried(i, f, dst)
      BY <2>1, <3>1, <3>2 DEF Carried, CarriedBy, Access
    <3> QED BY <2>1, <2>9, <3>3
  <2>11. CASE Devices(k[f], Packet(src, dst, i)) \subseteq OwnOrShared(n, i)
    BY <2>1, <2>9, <2>11 DEF OwnOrShared, Of, Access
  <2> QED BY <2>9, <2>10, <2>11
<1> QED BY <1>1, Inductive, PTL
----------------------------------------------------------------------------
(***************************************************************************)
(* WanSync                                                                 *)
(***************************************************************************)

\* What the script knows while nobody has told it of a change, nor could have.
Known ==
    (pending = 0 /\ ~missed) =>
        /\ pc = "table" => read = learned
        /\ pc = "sync" => read = learned /\ selected = copied
        /\ pc \in {"check", "wait"} => Follows

SyncInv == SyncTypeOK /\ Known
----------------------------------------------------------------------------
LEMMA SyncInitHolds == SyncInit => SyncInv
<1> SUFFICES ASSUME SyncInit
             PROVE  SyncInv
  OBVIOUS
<1>1. learned \in Tables /\ read \in Tables
  <2>1. \A r \in Routers : <<r>> \in Seq(Routers)
    OBVIOUS
  <2> QED BY <2>1, EmptySeq DEF SyncInit, Tables
<1>2. SyncTypeOK
  <2>1. attempt \in 1 .. Attempts /\ pending \in 0 .. MaxPending
    BY AttemptsAssumption, MaxPendingAssumption DEF SyncInit
  <2> QED BY <1>1, <2>1 DEF SyncInit, SyncTypeOK
<1> QED BY <1>2 DEF SyncInit, SyncInv, Known

\* A change is heard or missed.
LEMMA ChangesAreKnown ==
  ASSUME SyncInv, EnvironmentChanges
  PROVE  /\ pending' \in 0 .. MaxPending
         /\ ~listening => pending' = 0
         /\ missed' \in BOOLEAN
         /\ Known'
<1>1. CASE listening
  <2>1. pending' \in 1 .. MaxPending
    BY <1>1, MaxPendingAssumption DEF EnvironmentChanges, Notify, SyncInv, SyncTypeOK
  <2> QED BY <1>1, <2>1 DEF Known, EnvironmentChanges, SyncInv, SyncTypeOK
<1>2. CASE ~listening
  <2>1. pending' = 0 /\ missed' = TRUE
    BY <1>2 DEF EnvironmentChanges, Notify, SyncInv, SyncTypeOK
  <2> QED BY <1>2, <2>1, MaxPendingAssumption DEF Known
<1> QED BY <1>1, <1>2

LEMMA EnvironmentStep ==
  ASSUME SyncInv, Environment
  PROVE  SyncInv'
<1>1. EnvironmentChanges
  BY DEF Environment, Announce, Expire, LinkDown
<1>2. /\ learned' \in Tables
      /\ copied' = <<>> \/ \E r \in Routers : copied' = <<r>>
  <2>1. ASSUME NEW r \in Routers, Announce(r)
        PROVE  learned' \in Tables /\ copied' = copied
    BY <2>1 DEF Announce, SyncInv, SyncTypeOK, Tables
  <2>2. ASSUME NEW n \in DOMAIN learned, Expire(n)
        PROVE  learned' \in Tables /\ copied' = copied
    <3>1. learned \in Seq(Routers) /\ n \in 1 .. Len(learned)
      BY DEF SyncInv, SyncTypeOK, Tables
    <3>2. /\ SubSeq(learned, 1, n - 1) \in Seq(Routers)
          /\ SubSeq(learned, n + 1, Len(learned)) \in Seq(Routers)
      BY <3>1
    <3>3. learned' = SubSeq(learned, 1, n - 1) \o SubSeq(learned, n + 1, Len(learned))
      BY <2>2 DEF Expire, RemoveAt
    <3> QED BY <2>2, <3>2, <3>3 DEF Tables, Expire
  <2>3. CASE LinkDown
    BY <2>3 DEF LinkDown, Tables
  <2> QED BY <2>1, <2>2, <2>3 DEF Environment, SyncInv, SyncTypeOK
<1> QED BY <1>1, <1>2, ChangesAreKnown DEF SyncInv, SyncTypeOK, EnvironmentChanges

LEMMA SyncStep ==
  ASSUME SyncInv, Sync
  PROVE  SyncInv'
<1>1. /\ copied' = <<>> \/ \E r \in Routers : copied' = <<r>>
      /\ pending' \in 0 .. MaxPending
      /\ ~listening => pending' = pending
  <2>1. \A s \in Seq(Routers) : Len(s) = 1 => \E r \in Routers : s = <<r>>
    <3> SUFFICES ASSUME NEW s \in Seq(Routers), Len(s) = 1
                 PROVE  s[1] \in Routers /\ s = <<s[1]>>
      OBVIOUS
    <3>1. s[1] \in Routers
      OBVIOUS
    <3>2. <<s[1]>> \in Seq(Routers) /\ Len(<<s[1]>>) = 1 /\ <<s[1]>>[1] = s[1]
      BY <3>1
    <3>3. \A i \in 1 .. Len(s) : s[i] = <<s[1]>>[i]
      BY <3>2
    <3>4. s = <<s[1]>>
      BY <3>2, <3>3, SeqEqual
    <3> QED BY <3>1, <3>4
  <2> QED BY <2>1, MaxPendingAssumption
          DEF Sync, Replace, Delete, InStep, Written, Notify, SyncInv, SyncTypeOK, Tables
<1>2. SyncTypeOK'
  BY <1>1 DEF SyncInv, SyncTypeOK, Sync, AfterSync
<1>3. Known'
  <2> SUFFICES ASSUME pending' = 0, ~missed'
               PROVE  Follows'
    BY DEF Known, Sync, AfterSync
  <2>1. pending = 0 /\ ~missed /\ pc = "sync" /\ learned' = learned
    BY MaxPendingAssumption
    DEF Sync, Replace, Delete, InStep, Written, Notify, SyncInv, SyncTypeOK
  <2>2. read = learned /\ selected = copied
    BY <2>1 DEF SyncInv, Known
  <2>3. CASE Replace
    <3>1. Len(read) \in Nat /\ read # <<>>
      BY <2>3, EmptySeq DEF Replace, SyncInv, SyncTypeOK, Tables
    <3>2. CASE Len(read) = 1
      BY <2>1, <2>2, <2>3, <3>2 DEF Replace, Written, Follows
    <3>3. CASE Len(read) > 1
      BY <2>1, <2>2, <3>1, <3>3 DEF Follows
    <3>4. Len(read) # 0
      BY <3>1, EmptySeq DEF SyncInv, SyncTypeOK, Tables
    <3>5. \A n \in Nat : n # 0 => n = 1 \/ n > 1
      OBVIOUS
    <3>6. Len(read) = 1 \/ Len(read) > 1
      BY <3>1, <3>4, <3>5, Zenon
    <3> QED BY <3>2, <3>3, <3>6
  <2>4. CASE Delete
    BY <2>1, <2>2, <2>4 DEF Delete, Written, Follows
  <2>5. CASE InStep
    BY <2>1, <2>2, <2>5 DEF InStep, Follows
  <2> QED BY <2>3, <2>4, <2>5 DEF Sync
<1> QED BY <1>2, <1>3 DEF SyncInv

LEMMA ScriptStep ==
  ASSUME SyncInv, Script
  PROVE  SyncInv'
<1>1. CASE ReadMain
  BY <1>1 DEF ReadMain, environment, SyncInv, SyncTypeOK, Known
<1>2. CASE ReadTable
  BY <1>2 DEF ReadTable, environment, SyncInv, SyncTypeOK, Known
<1>3. CASE Sync
  BY <1>3, SyncStep
<1>4. CASE TryAgain
  BY <1>4, AttemptsAssumption DEF TryAgain, AttemptLeft, environment, SyncInv, SyncTypeOK, Known
<1>5. CASE Listen
  BY <1>5 DEF Listen, environment, SyncInv, SyncTypeOK, Known, Follows
<1>6. CASE Hear
  BY <1>6, MaxPendingAssumption DEF Hear, environment, SyncInv, SyncTypeOK, Known
<1> QED BY <1>1, <1>2, <1>3, <1>4, <1>5, <1>6 DEF Script

THEOREM SyncInductive == SyncSpec => []SyncInv
<1>1. SyncInv /\ [SyncNext]_syncVars => SyncInv'
  <2>1. SyncInv /\ UNCHANGED syncVars => SyncInv'
    BY DEF syncVars, SyncInv, SyncTypeOK, Known, Follows
  <2> QED BY <2>1, EnvironmentStep, ScriptStep DEF SyncNext
<1> QED BY <1>1, SyncInitHolds, PTL DEF SyncSpec
----------------------------------------------------------------------------
\* The selected table never holds two routes, the attempts never exceed their
\* number and no event is heard before the subscription.
THEOREM SyncTypeCorrect == SyncSpec => []SyncTypeOK
<1>1. SyncInv => SyncTypeOK
  BY DEF SyncInv
<1> QED BY <1>1, SyncInductive, PTL

\* However the changes of routers interleave with the script's reads and writes,
\* the tables agree when it rests.
THEOREM RestFollows == SyncSpec => []RestMeansFollowing
<1>1. SyncInv => RestMeansFollowing
  BY DEF SyncInv, Known, RestMeansFollowing, AtRest
<1> QED BY <1>1, SyncInductive, PTL
=============================================================================
