---------------------------- MODULE RouterProofs ----------------------------
(***************************************************************************)
(* The life of a route, for any number of toolchains, streams and calls:   *)
(* the counts are exact, the map holds the open routes, a request is       *)
(* delivered once, and Route panics only for a stranded caller.            *)
(***************************************************************************)
EXTENDS Router, FiniteSetTheorems, TLAPS

RefSteps == {"wait", "pass", "load", "cancel", "remove", "end"}
Refs == [party : Parties, route : Ids, pc : RefSteps, req : SUBSET Calls]

\* The types TypeOK leaves out.
WorkOK ==
  /\ att \in Seq(Refs)
  /\ queue \in [Parties -> Seq(Tcs)]
  /\ drop \in [Parties -> SUBSET Nat]
  /\ \A p \in Parties : drop[p] \subseteq DOMAIN TcsOf[p]

\* Whatever names a route names one that was made.
MadeInv ==
  /\ cancelled \subseteq DOMAIN made
  /\ \A p \in Parties : cur[p] # NoRoute => cur[p] \in DOMAIN made
  /\ \A k \in DOMAIN att : att[k].route \in DOMAIN made
  /\ \A x \in Calls : call[x] # "new" => callRt[x] \in DOMAIN made

\* A stream looks routes up only while it adds or updates, and has a route in
\* hand only for a toolchain of its lists.
FlowOK ==
  \A p \in Parties :
    /\ phase[p] \in {"off", "ready", "end"} => cur[p] = NoRoute
    /\ drop[p] # {} => phase[p] = "updating"
    /\ cur[p] # NoRoute /\ drop[p] = {} => queue[p] # <<>>

TypeInv == TypeOK /\ WorkOK /\ FlowOK /\ MadeInv

-----------------------------------------------------------------------------
\* The references in the list are finitely many.
LEMMA HoldingFinite ==
  ASSUME WorkOK, NEW i, NEW kind
  PROVE  IsFiniteSet(Holding(i, kind)) /\ Cardinality(Holding(i, kind)) \in Nat
<1>1. DOMAIN att = 1 .. Len(att) /\ Len(att) \in Nat
  BY DEF WorkOK
<1>2. IsFiniteSet(DOMAIN att)
  BY <1>1, FS_Interval
<1>3. Holding(i, kind) \subseteq DOMAIN att
  BY Zenon DEF Holding
<1> QED
  BY <1>2, <1>3, FS_Subset, FS_CardinalityType, Zenon

\* A step of the goroutine behind one reference changes that reference's step.
LEMMA Moved ==
  ASSUME WorkOK, NEW k \in DOMAIN att, NEW q \in RefSteps, Move(k, q)
  PROVE  /\ att' \in Seq(Refs) /\ DOMAIN att' = DOMAIN att
         /\ att'[k].pc = q
         /\ \A l \in DOMAIN att :
              /\ att'[l].party = att[l].party /\ att'[l].route = att[l].route
              /\ att'[l].req = att[l].req
              /\ l # k => att'[l] = att[l]
<1>1. att \in Seq(Refs) /\ att' = [att EXCEPT ![k] = [att[k] EXCEPT !.pc = q]]
  BY Zenon DEF WorkOK, Move
<1>2. att[k] \in Refs
  BY <1>1
<1>3. [att[k] EXCEPT !.pc = q] \in Refs
  BY <1>2, Zenon DEF Refs
<1>4. att' \in Seq(Refs) /\ DOMAIN att' = DOMAIN att
  BY <1>1, <1>3
<1>5. att'[k] = [att[k] EXCEPT !.pc = q] /\ \A l \in DOMAIN att : l # k => att'[l] = att[l]
  BY <1>1, Zenon
<1>6. /\ att'[k].pc = q /\ att'[k].party = att[k].party
      /\ att'[k].route = att[k].route /\ att'[k].req = att[k].req
  BY <1>2, <1>5, Zenon DEF Refs
<1> QED
  BY <1>4, <1>5, <1>6, Zenon

\* A hand-off, and passing the request on, also change what it carries.
LEMMA Carried ==
  ASSUME WorkOK, NEW k \in DOMAIN att, NEW q \in RefSteps, NEW r \in SUBSET Calls,
         att' = [att EXCEPT ![k] = [@ EXCEPT !.pc = q, !.req = r]]
  PROVE  /\ att' \in Seq(Refs) /\ DOMAIN att' = DOMAIN att
         /\ att'[k].pc = q /\ att'[k].req = r
         /\ \A l \in DOMAIN att :
              /\ att'[l].party = att[l].party /\ att'[l].route = att[l].route
              /\ l # k => att'[l] = att[l]
<1> DEFINE v == [att[k] EXCEPT !.pc = q, !.req = r]
<1>1. att \in Seq(Refs) /\ att[k] \in Refs
  BY DEF WorkOK
<1>2. /\ v \in Refs /\ v.pc = q /\ v.req = r
      /\ v.party = att[k].party /\ v.route = att[k].route
  BY <1>1, Zenon DEF Refs
<1>3. att' = [att EXCEPT ![k] = v]
  BY <1>1, Zenon
<1> HIDE DEF v
<1>4. att' \in Seq(Refs) /\ DOMAIN att' = DOMAIN att
  BY <1>1, <1>2, <1>3
<1>5. att'[k] = v /\ \A l \in DOMAIN att : l # k => att'[l] = att[l]
  BY <1>1, <1>3, Zenon
<1> QED
  BY <1>2, <1>4, <1>5, Zenon

\* attachSender and attachReceiver add one reference, at the end.
LEMMA Attached ==
  ASSUME TypeInv, NEW p \in Parties, Attach(p)
  PROVE  /\ att' \in Seq(Refs) /\ Len(att') = Len(att) + 1 /\ Len(att) \in Nat
         /\ DOMAIN att' = DOMAIN att \cup {Len(att) + 1} /\ Len(att) + 1 \notin DOMAIN att
         /\ \A l \in DOMAIN att : att'[l] = att[l]
         /\ att'[Len(att) + 1].party = p /\ att'[Len(att) + 1].route = cur[p]
         /\ att'[Len(att) + 1].pc = "wait" /\ att'[Len(att) + 1].req = {}
         /\ cur[p] \in DOMAIN made /\ cur[p] \in Ids
<1> DEFINE v == [party |-> p, route |-> cur[p], pc |-> "wait", req |-> {}]
<1>1. att \in Seq(Refs) /\ att' = Append(att, v)
  BY Zenon DEF Attach, TypeInv, WorkOK
<1>2. cur[p] \in Ids /\ cur[p] \in DOMAIN made
  BY Zenon DEF Attach, TypeInv, TypeOK, MadeInv
<1>3. v \in Refs /\ v.party = p /\ v.route = cur[p] /\ v.pc = "wait" /\ v.req = {}
  BY <1>2, Zenon DEF Refs, RefSteps
<1> HIDE DEF v
<1>4. /\ att' \in Seq(Refs) /\ Len(att') = Len(att) + 1 /\ Len(att) \in Nat
      /\ \A l \in DOMAIN att : att'[l] = att[l]
      /\ att'[Len(att) + 1] = v
  BY <1>1, <1>3
<1>5. DOMAIN att' = DOMAIN att \cup {Len(att) + 1} /\ Len(att) + 1 \notin DOMAIN att
  BY <1>1, <1>4
<1> QED
  BY <1>2, <1>3, <1>4, <1>5, Zenon

\* The route that routeForToolchain returns is the toolchain's open one, and the
\* map still holds exactly the open routes.
LEMMA RouteFound ==
  ASSUME TypeInv, MapHoldsOpenRoutes, closed' = closed,
         NEW t \in Tcs, NEW i \in Ids, RouteForToolchain(t, i)
  PROVE  /\ made' \in Seq(Tcs) /\ Len(made') <= MaxRoutes
         /\ routes' \in [Tcs -> Ids \cup {NoRoute}]
         /\ i \in DOMAIN made' /\ made'[i] = t /\ i \notin closed
         /\ DOMAIN made \subseteq DOMAIN made' /\ \A j \in DOMAIN made : made'[j] = made[j]
         /\ routes[t] \in {i, NoRoute}
         /\ MapHoldsOpenRoutes'
<1>1. MaxRoutes \in Nat /\ made \in Seq(Tcs) /\ Len(made) \in Nat /\ DOMAIN made = 1 .. Len(made)
  BY RouterAssumptions DEF TypeInv, TypeOK
<1>2. closed \subseteq DOMAIN made
  BY Zenon DEF TypeInv, TypeOK, MadeInv
<1>3. CASE routes[t] = i /\ i # NoRoute /\ UNCHANGED <<made, routes>>
  BY <1>3, Zenon DEF TypeInv, TypeOK, MapHoldsOpenRoutes
<1>4. CASE /\ routes[t] = NoRoute /\ Len(made) < MaxRoutes /\ i = Len(made) + 1
           /\ made' = Append(made, t)
           /\ routes' = [routes EXCEPT ![t] = i]
  <2>1. /\ made' \in Seq(Tcs) /\ Len(made') = Len(made) + 1 /\ made'[i] = t
        /\ \A j \in DOMAIN made : made'[j] = made[j]
    BY <1>1, <1>4
  <2>2. DOMAIN made' = DOMAIN made \cup {i} /\ i \notin DOMAIN made
    BY <1>1, <1>4, <2>1
  <2>3. routes' \in [Tcs -> Ids \cup {NoRoute}]
    BY <1>4, Zenon DEF TypeInv, TypeOK
  <2>4. \A u \in Tcs, j \in Ids :
           (routes'[u] = j) <=> (j \in DOMAIN made' /\ made'[j] = u /\ j \notin closed')
    <3> SUFFICES ASSUME NEW u \in Tcs, NEW j \in Ids
                 PROVE  (routes'[u] = j) <=> (j \in DOMAIN made' /\ made'[j] = u /\ j \notin closed')
      OBVIOUS
    <3>1. (routes[u] = j) <=> (j \in DOMAIN made /\ made[j] = u /\ j \notin closed)
      BY Zenon DEF MapHoldsOpenRoutes
    <3>2. routes'[u] = IF u = t THEN i ELSE routes[u]
      BY <1>4, Zenon DEF TypeInv, TypeOK
    <3>3. CASE j = i
      BY <1>2, <2>1, <2>2, <3>1, <3>2, <3>3, Zenon
    <3>4. CASE j # i
      <4>1. routes[t] # j
        BY <1>1, <1>4 DEF NoRoute, Ids
      <4>2. (t = made[j] /\ j \in DOMAIN made) => j \in closed
        BY <4>1, Zenon DEF MapHoldsOpenRoutes
      <4> QED
        BY <2>1, <2>2, <3>1, <3>2, <3>4, <4>2, Zenon
    <3> QED
      BY <3>3, <3>4, Zenon
  <2>5. MapHoldsOpenRoutes'
    BY <2>4, Zenon DEF MapHoldsOpenRoutes
  <2> QED
    BY <1>1, <1>2, <1>4, <2>1, <2>2, <2>3, <2>5
<1> QED
  BY <1>3, <1>4, Zenon DEF RouteForToolchain

-----------------------------------------------------------------------------
\* A step that neither takes nor drops a reference keeps the counts exact.
LEMMA CountsKept ==
  ASSUME RefCountsExact, UNCHANGED <<rx, tx>>, DOMAIN att' = DOMAIN att,
         \A l \in DOMAIN att :
            /\ att'[l].party = att[l].party /\ att'[l].route = att[l].route
            /\ att'[l].pc \in {"wait", "pass"} <=> att[l].pc \in {"wait", "pass"}
  PROVE  RefCountsExact'
<1>1. \A i \in Ids : Holding(i, Agents)' = Holding(i, Agents) /\ Holding(i, Cds)' = Holding(i, Cds)
  BY Zenon DEF Holding
<1> QED
  BY <1>1, Zenon DEF RefCountsExact

\* Attaching takes one reference, and counts it.
LEMMA AttachCounts ==
  ASSUME TypeInv, RefCountsExact, NEW p \in Parties, Attach(p)
  PROVE  RefCountsExact' /\ rx' \in [Ids -> Nat] /\ tx' \in [Ids -> Nat]
<1> DEFINE n == Len(att) + 1
           i == cur[p]
<1>1. /\ DOMAIN att' = DOMAIN att \cup {n} /\ n \notin DOMAIN att /\ i \in Ids
      /\ \A l \in DOMAIN att : att'[l] = att[l]
      /\ att'[n].party = p /\ att'[n].route = i /\ att'[n].pc = "wait"
  BY Attached, Zenon
<1> HIDE DEF n
<1>2. /\ rx \in [Ids -> Nat] /\ tx \in [Ids -> Nat] /\ WorkOK
      /\ Cds \cap Agents = {} /\ Parties = Cds \cup Agents
  BY RouterAssumptions, Zenon DEF TypeInv, TypeOK, Parties
<1>3. /\ rx' = IF p \in Agents THEN [rx EXCEPT ![i] = @ + 1] ELSE rx
      /\ tx' = IF p \in Cds THEN [tx EXCEPT ![i] = @ + 1] ELSE tx
  BY Zenon DEF Attach
<1>4. \A j \in Ids :
        /\ Holding(j, Agents)' = IF p \in Agents /\ j = i THEN Holding(j, Agents) \cup {n}
                                 ELSE Holding(j, Agents)
        /\ Holding(j, Cds)' = IF p \in Cds /\ j = i THEN Holding(j, Cds) \cup {n}
                              ELSE Holding(j, Cds)
  BY <1>1, Zenon DEF Holding
<1>5. \A j \in Ids :
        /\ Cardinality(Holding(j, Agents) \cup {n}) = Cardinality(Holding(j, Agents)) + 1
        /\ Cardinality(Holding(j, Cds) \cup {n}) = Cardinality(Holding(j, Cds)) + 1
  <2> TAKE j \in Ids
  <2>1. n \notin Holding(j, Agents) /\ n \notin Holding(j, Cds)
    BY <1>1, Zenon DEF Holding
  <2>2. IsFiniteSet(Holding(j, Agents)) /\ IsFiniteSet(Holding(j, Cds))
    BY <1>2, HoldingFinite, Zenon
  <2> QED
    BY <2>1, <2>2, FS_AddElement, Zenon
<1>6. rx' \in [Ids -> Nat] /\ tx' \in [Ids -> Nat]
  BY <1>1, <1>2, <1>3
<1>7. \A j \in Ids : rx'[j] = Cardinality(Holding(j, Agents)')
  <2>1. CASE p \in Agents
    <3> TAKE j \in Ids
    <3>1. rx'[j] = IF j = i THEN rx[j] + 1 ELSE rx[j]
      BY <1>1, <1>2, <1>3, <2>1, Zenon
    <3>2. Holding(j, Agents)' = IF j = i THEN Holding(j, Agents) \cup {n} ELSE Holding(j, Agents)
      BY <1>4, <2>1, Zenon
    <3> QED
      BY <1>5, <3>1, <3>2, Zenon DEF RefCountsExact
  <2>2. CASE p \notin Agents
    BY <1>1, <1>2, <1>3, <1>4, <2>2 DEF RefCountsExact
  <2> QED
    BY <2>1, <2>2, Zenon
<1>8. \A j \in Ids : tx'[j] = Cardinality(Holding(j, Cds)')
  <2>1. CASE p \in Cds
    <3> TAKE j \in Ids
    <3>1. tx'[j] = IF j = i THEN tx[j] + 1 ELSE tx[j]
      BY <1>1, <1>2, <1>3, <2>1, Zenon
    <3>2. Holding(j, Cds)' = IF j = i THEN Holding(j, Cds) \cup {n} ELSE Holding(j, Cds)
      BY <1>4, <2>1, Zenon
    <3> QED
      BY <1>5, <3>1, <3>2, Zenon DEF RefCountsExact
  <2>2. CASE p \notin Cds
    BY <1>1, <1>2, <1>3, <1>4, <2>2, Zenon DEF RefCountsExact
  <2> QED
    BY <2>1, <2>2, Zenon
<1> QED
  BY <1>6, <1>7, <1>8, Zenon DEF RefCountsExact

\* Giving a reference back drops it, and the count was not zero.
LEMMA DecCounts ==
  ASSUME TypeInv, RefCountsExact, NEW k \in DOMAIN att, DecRefCount(k)
  PROVE  /\ RefCountsExact' /\ rx' \in [Ids -> Nat] /\ tx' \in [Ids -> Nat]
         /\ WorkOK' /\ DOMAIN att' = DOMAIN att
         /\ \A l \in DOMAIN att :
              /\ att'[l].party = att[l].party /\ att'[l].route = att[l].route
              /\ att'[l].req = att[l].req
              /\ l # k => att'[l] = att[l]
<1> DEFINE i == att[k].route
           p == att[k].party
           n == Count(k)[i] - 1
           q == IF n <= 0 THEN "load" ELSE "remove"
<1>1. /\ rx \in [Ids -> Nat] /\ tx \in [Ids -> Nat] /\ WorkOK
      /\ Cds \cap Agents = {} /\ Parties = Cds \cup Agents
  BY RouterAssumptions, Zenon DEF TypeInv, TypeOK, Parties
<1>2. i \in Ids /\ p \in Parties /\ att[k].pc = "wait"
  <2>1. att[k] \in Refs
    BY <1>1 DEF WorkOK
  <2> QED
    BY <2>1, Zenon DEF Refs, DecRefCount, At
<1>3. Move(k, q) /\ q \in RefSteps
  BY Zenon DEF DecRefCount, RefSteps
<1>4. /\ att' \in Seq(Refs) /\ DOMAIN att' = DOMAIN att /\ att'[k].pc = q
      /\ \A l \in DOMAIN att :
           /\ att'[l].party = att[l].party /\ att'[l].route = att[l].route
           /\ att'[l].req = att[l].req
           /\ l # k => att'[l] = att[l]
  BY <1>1, <1>3, Moved, Zenon
<1>5. WorkOK'
  BY <1>1, <1>4, Zenon DEF WorkOK, DecRefCount, partyVars
<1>6. q \notin {"wait", "pass"}
  OBVIOUS
<1>7. /\ rx' = IF p \in Agents THEN [rx EXCEPT ![i] = n] ELSE rx
      /\ tx' = IF p \in Cds THEN [tx EXCEPT ![i] = n] ELSE tx
      /\ n = IF p \in Agents THEN rx[i] - 1 ELSE tx[i] - 1
  BY Zenon DEF DecRefCount, Count
<1> HIDE DEF i, p, n, q
<1>8. \A j \in Ids :
        /\ Holding(j, Agents)' = IF p \in Agents /\ j = i THEN Holding(j, Agents) \ {k}
                                 ELSE Holding(j, Agents)
        /\ Holding(j, Cds)' = IF p \in Cds /\ j = i THEN Holding(j, Cds) \ {k}
                              ELSE Holding(j, Cds)
  BY <1>4, <1>6 DEF Holding, i, p
<1>9. /\ p \in Agents => k \in Holding(i, Agents)
      /\ p \in Cds => k \in Holding(i, Cds)
  BY <1>2, Zenon DEF Holding, i, p
<1>10. /\ p \in Agents => Cardinality(Holding(i, Agents) \ {k}) = Cardinality(Holding(i, Agents)) - 1
       /\ p \in Cds => Cardinality(Holding(i, Cds) \ {k}) = Cardinality(Holding(i, Cds)) - 1
  BY <1>1, <1>9, HoldingFinite, FS_RemoveElement, Zenon
<1>11. /\ p \in Agents => Cardinality(Holding(i, Agents) \ {k}) \in Nat
       /\ p \in Cds => Cardinality(Holding(i, Cds) \ {k}) \in Nat
  BY <1>1, HoldingFinite, FS_RemoveElement, FS_CardinalityType, Zenon
<1>12. n \in Nat
  BY <1>1, <1>2, <1>7, <1>10, <1>11, Zenon DEF RefCountsExact
<1>13. rx' \in [Ids -> Nat] /\ tx' \in [Ids -> Nat]
  BY <1>1, <1>2, <1>7, <1>12, Zenon
<1>14. \A j \in Ids : rx'[j] = Cardinality(Holding(j, Agents)')
  BY <1>1, <1>2, <1>7, <1>8, <1>10, Zenon DEF RefCountsExact
<1>15. \A j \in Ids : tx'[j] = Cardinality(Holding(j, Cds)')
  BY <1>1, <1>2, <1>7, <1>8, <1>10, Zenon DEF RefCountsExact
<1>16. RefCountsExact'
  BY <1>14, <1>15, Zenon DEF RefCountsExact
<1> QED
  BY <1>4, <1>5, <1>13, <1>16, Zenon

-----------------------------------------------------------------------------
\* What every later step can rely on: types, the map and the counts.
RoutesInv == TypeInv /\ MapHoldsOpenRoutes /\ RefCountsExact

\* The parts a step of a stream, of a reference or of a call leaves alone.
MapSame == UNCHANGED <<made, routes, closed>>
RefsSame == UNCHANGED <<rx, tx, att>>

\* No step takes back a route, a reference or the close of a channel.
Grows ==
  /\ DOMAIN made \subseteq DOMAIN made' /\ \A i \in DOMAIN made : made'[i] = made[i]
  /\ DOMAIN att \subseteq DOMAIN att'
  /\ \A k \in DOMAIN att : att'[k].party = att[k].party /\ att'[k].route = att[k].route
  /\ closed \subseteq closed'

LEMMA RefsFrame ==
  ASSUME RefCountsExact, RefsSame
  PROVE  RefCountsExact'
BY Zenon DEF RefCountsExact, Holding, RefsSame

LEMMA MapFrame ==
  ASSUME MapHoldsOpenRoutes, MapSame
  PROVE  MapHoldsOpenRoutes'
BY Zenon DEF MapHoldsOpenRoutes, MapSame

\* Every step of a stream keeps types, map and counts, and takes nothing back.
LEMMA PartySound ==
  ASSUME RoutesInv, NEW p \in Parties,
         Add(p) \/ End(p) \/ PartyStep(p) \/ (p \in Cds /\ UpdateSenderToolchains(p))
  PROVE  RoutesInv' /\ Grows
<1> USE DEF RoutesInv
<1>0. /\ TcsOf \in [Parties -> Seq(Tcs)] /\ NewTcs \in [Cds -> Seq(Tcs)]
      /\ queue[p] \in Seq(Tcs) /\ Parties = Cds \cup Agents
  BY RouterAssumptions, Zenon DEF Parties, TypeInv, WorkOK
<1>1. CASE Add(p)
  <2>1. TypeOK'
    BY <1>1, Zenon DEF Add, TypeInv, TypeOK, routeVars, refVars, callVars
  <2>2. WorkOK'
    BY <1>0, <1>1, Zenon DEF Add, TypeInv, WorkOK, refVars
  <2>3. MadeInv'
    BY <1>1, Zenon DEF Add, TypeInv, MadeInv, routeVars, refVars, callVars
  <2>4. MapSame /\ RefsSame
    BY <1>1, Zenon DEF Add, MapSame, RefsSame, routeVars, refVars
  <2>flow. FlowOK'
    BY <1>1, Zenon DEF Add, TypeInv, TypeOK, WorkOK, FlowOK
  <2>grow. Grows
    BY <2>4, Zenon DEF Grows, MapSame, RefsSame
  <2> QED
    BY <2>grow, <2>flow, <2>1, <2>2, <2>3, <2>4, MapFrame, RefsFrame, Zenon DEF TypeInv
<1>2. CASE End(p)
  <2>1. TypeOK'
    BY <1>2, Zenon DEF End, TypeInv, TypeOK, routeVars, refVars, callVars
  <2>2. WorkOK' /\ MadeInv'
    BY <1>2, Zenon DEF End, TypeInv, WorkOK, MadeInv, routeVars, refVars, callVars
  <2>3. MapSame /\ RefsSame
    BY <1>2, Zenon DEF End, MapSame, RefsSame, routeVars, refVars
  <2>flow. FlowOK'
    BY <1>2, Zenon DEF End, TypeInv, TypeOK, WorkOK, FlowOK
  <2>grow. Grows
    BY <2>3, Zenon DEF Grows, MapSame, RefsSame
  <2> QED
    BY <2>grow, <2>flow, <2>1, <2>2, <2>3, MapFrame, RefsFrame, Zenon DEF TypeInv
<1>3. CASE Lookup(p)
  <2>1. PICK i \in Ids : RouteForToolchain(Head(queue[p]), i) /\ cur' = [cur EXCEPT ![p] = i]
    BY <1>3, Zenon DEF Lookup
  <2>2. Head(queue[p]) \in Tcs /\ closed' = closed
    BY <1>0, <1>3 DEF Lookup
  <2>3. /\ made' \in Seq(Tcs) /\ Len(made') <= MaxRoutes
        /\ routes' \in [Tcs -> Ids \cup {NoRoute}]
        /\ i \in DOMAIN made' /\ DOMAIN made \subseteq DOMAIN made' /\ MapHoldsOpenRoutes'
        /\ \A j \in DOMAIN made : made'[j] = made[j]
    BY <2>1, <2>2, RouteFound, Zenon
  <2>4. TypeOK'
    BY <1>3, <2>1, <2>3, Zenon DEF Lookup, TypeInv, TypeOK, refVars, callVars
  <2>5. WorkOK'
    BY <1>3, Zenon DEF Lookup, TypeInv, WorkOK, refVars
  <2>6. MadeInv'
    BY <1>3, <2>1, <2>3, Zenon DEF Lookup, TypeInv, TypeOK, MadeInv, refVars, callVars
  <2>7. RefsSame
    BY <1>3, Zenon DEF Lookup, RefsSame, refVars
  <2>flow. FlowOK'
    BY <1>3, Zenon DEF Lookup, TypeInv, TypeOK, WorkOK, FlowOK
  <2>grow. Grows
    BY <2>2, <2>3, <2>7, Zenon DEF Grows, RefsSame
  <2> QED
    BY <2>grow, <2>flow, <2>3, <2>4, <2>5, <2>6, <2>7, RefsFrame, Zenon DEF TypeInv
<1>4. CASE Attach(p)
  <2>1. RefCountsExact' /\ rx' \in [Ids -> Nat] /\ tx' \in [Ids -> Nat]
    BY <1>4, AttachCounts, Zenon
  <2>2. TypeOK'
    BY <1>4, <2>1, Zenon DEF Attach, TypeInv, TypeOK, routeVars, callVars
  <2>3. WorkOK'
    <3>1. att' \in Seq(Refs)
      BY <1>4, Attached, Zenon
    <3>2. queue[p] # <<>> => Tail(queue[p]) \in Seq(Tcs)
      BY <1>0
    <3>3. queue[p] # <<>>
      BY <1>4, Zenon DEF Attach, TypeInv, FlowOK
    <3>4. queue' \in [Parties -> Seq(Tcs)]
      BY <1>4, <3>2, <3>3, Zenon DEF Attach, TypeInv, WorkOK
    <3> QED
      BY <1>4, <3>1, <3>4, Zenon DEF Attach, TypeInv, WorkOK
  <2>4. MadeInv'
    <3>1. \A k \in DOMAIN att' : att'[k].route \in DOMAIN made
      BY <1>4, Attached DEF TypeInv, MadeInv
    <3>2. \A q \in Parties : cur'[q] # NoRoute => cur'[q] \in DOMAIN made
      BY <1>4, Zenon DEF Attach, TypeInv, TypeOK, MadeInv
    <3> QED
      BY <1>4, <3>1, <3>2, Zenon DEF Attach, TypeInv, MadeInv, routeVars, callVars
  <2>5. MapSame
    BY <1>4, Zenon DEF Attach, MapSame, routeVars
  <2>flow. FlowOK'
    BY <1>4, Zenon DEF Attach, TypeInv, TypeOK, WorkOK, FlowOK
  <2>grow. Grows
    BY <1>4, <2>5, Attached, Zenon DEF Grows, MapSame
  <2> QED
    BY <2>grow, <2>flow, <2>1, <2>2, <2>3, <2>4, <2>5, MapFrame, Zenon DEF TypeInv
<1>5. CASE Added(p)
  <2>1. TypeOK'
    BY <1>5, Zenon DEF Added, TypeInv, TypeOK, routeVars, refVars, callVars
  <2>2. WorkOK' /\ MadeInv'
    BY <1>5, Zenon DEF Added, TypeInv, WorkOK, MadeInv, routeVars, refVars, callVars
  <2>3. MapSame /\ RefsSame
    BY <1>5, Zenon DEF Added, MapSame, RefsSame, routeVars, refVars
  <2>flow. FlowOK'
    BY <1>5, Zenon DEF Added, TypeInv, TypeOK, WorkOK, FlowOK
  <2>grow. Grows
    BY <2>3, Zenon DEF Grows, MapSame, RefsSame
  <2> QED
    BY <2>grow, <2>flow, <2>1, <2>2, <2>3, MapFrame, RefsFrame, Zenon DEF TypeInv
<1>6. CASE DropLookup(p)
  <2>1. PICK k \in FirstOf(drop[p]), i \in Ids :
          RouteForToolchain(TcsOf[p][k], i) /\ cur' = [cur EXCEPT ![p] = i]
    BY <1>6, Zenon DEF DropLookup
  <2>2. TcsOf[p][k] \in Tcs /\ closed' = closed
    <3>1. k \in DOMAIN TcsOf[p] /\ TcsOf[p] \in Seq(Tcs)
      BY <1>0, Zenon DEF FirstOf, TypeInv, WorkOK
    <3> QED
      BY <1>6, <3>1 DEF DropLookup
  <2>3. /\ made' \in Seq(Tcs) /\ Len(made') <= MaxRoutes
        /\ routes' \in [Tcs -> Ids \cup {NoRoute}]
        /\ i \in DOMAIN made' /\ DOMAIN made \subseteq DOMAIN made' /\ MapHoldsOpenRoutes'
        /\ \A j \in DOMAIN made : made'[j] = made[j]
    BY <2>1, <2>2, RouteFound, Zenon
  <2>4. TypeOK'
    BY <1>6, <2>1, <2>3, Zenon DEF DropLookup, TypeInv, TypeOK, refVars, callVars
  <2>5. WorkOK'
    BY <1>6, Zenon DEF DropLookup, TypeInv, WorkOK, refVars
  <2>6. MadeInv'
    BY <1>6, <2>1, <2>3, Zenon DEF DropLookup, TypeInv, TypeOK, MadeInv, refVars, callVars
  <2>7. RefsSame
    BY <1>6, Zenon DEF DropLookup, RefsSame, refVars
  <2>flow. FlowOK'
    BY <1>6 DEF DropLookup, TypeInv, TypeOK, WorkOK, FlowOK, FirstOf
  <2>grow. Grows
    BY <2>2, <2>3, <2>7, Zenon DEF Grows, RefsSame
  <2> QED
    BY <2>grow, <2>flow, <2>3, <2>4, <2>5, <2>6, <2>7, RefsFrame, Zenon DEF TypeInv
<1>7. CASE DropCancel(p)
  <2>1. TypeOK'
    BY <1>7, Zenon DEF DropCancel, TypeInv, TypeOK, refVars, callVars
  <2>2. WorkOK'
    BY <1>7, Zenon DEF DropCancel, TypeInv, WorkOK, refVars
  <2>3. MadeInv'
    BY <1>7, Zenon DEF DropCancel, TypeInv, TypeOK, MadeInv, refVars, callVars
  <2>4. MapSame /\ RefsSame
    BY <1>7, Zenon DEF DropCancel, MapSame, RefsSame, refVars
  <2>flow. FlowOK'
    BY <1>7, Zenon DEF DropCancel, TypeInv, TypeOK, WorkOK, FlowOK
  <2>grow. Grows
    BY <2>4, Zenon DEF Grows, MapSame, RefsSame
  <2> QED
    BY <2>grow, <2>flow, <2>1, <2>2, <2>3, <2>4, MapFrame, RefsFrame, Zenon DEF TypeInv
<1>8. CASE p \in Cds /\ UpdateSenderToolchains(p)
  <2> DEFINE isNew == {k \in DOMAIN NewTcs[p] : NewTcs[p][k] \notin Items(TcsOf[p])}
  <2>1. TypeOK'
    BY <1>8, Zenon DEF UpdateSenderToolchains, TypeInv, TypeOK, routeVars, refVars, callVars
  <2>2. [k \in 1 .. Cardinality(isNew) |-> NewTcs[p][Len(NewTcs[p])]] \in Seq(Tcs)
    <3>1. NewTcs[p] \in Seq(Tcs) /\ DOMAIN NewTcs[p] = 1 .. Len(NewTcs[p]) /\ Len(NewTcs[p]) \in Nat
      BY <1>0, <1>8
    <3>2. isNew \subseteq 1 .. Len(NewTcs[p]) /\ IsFiniteSet(1 .. Len(NewTcs[p]))
      BY <3>1, FS_Interval
    <3>3. IsFiniteSet(isNew) /\ Cardinality(isNew) \in Nat
      BY <3>2, FS_Subset, FS_CardinalityType, Zenon
    <3>4. isNew = {} => Cardinality(isNew) = 0
      BY FS_EmptySet, Zenon
    <3>5. isNew # {} => NewTcs[p][Len(NewTcs[p])] \in Tcs
      BY <3>1, <3>2
    <3> HIDE DEF isNew
    <3>6. \A k \in 1 .. Cardinality(isNew) : NewTcs[p][Len(NewTcs[p])] \in Tcs
      BY <3>3, <3>4, <3>5
    <3> QED
      BY <3>3, <3>6
  <2> HIDE DEF isNew
  <2>3. queue' = [queue EXCEPT ![p] = [k \in 1 .. Cardinality(isNew) |-> NewTcs[p][Len(NewTcs[p])]]]
    BY <1>8, Zenon DEF UpdateSenderToolchains, isNew
  <2>4. WorkOK'
    <3>1. drop' = [drop EXCEPT ![p] = {k \in DOMAIN TcsOf[p] : TcsOf[p][k] \notin Items(NewTcs[p])}]
      BY <1>8, Zenon DEF UpdateSenderToolchains
    <3>2. DOMAIN TcsOf[p] \subseteq Nat
      <4>1. TcsOf[p] \in Seq(Tcs)
        BY <1>0, Zenon
      <4> QED
        BY <4>1
    <3>3. queue' \in [Parties -> Seq(Tcs)]
      BY <2>2, <2>3, Zenon DEF TypeInv, WorkOK
    <3>4. /\ drop' \in [Parties -> SUBSET Nat]
          /\ \A q \in Parties : drop'[q] \subseteq DOMAIN TcsOf[q]
      BY <3>1, <3>2, Zenon DEF TypeInv, WorkOK
    <3> QED
      BY <1>8, <3>3, <3>4, Zenon DEF UpdateSenderToolchains, TypeInv, WorkOK, refVars
  <2>5. MadeInv'
    BY <1>8, Zenon DEF UpdateSenderToolchains, TypeInv, MadeInv, routeVars, refVars, callVars
  <2>6. MapSame /\ RefsSame
    BY <1>8, Zenon DEF UpdateSenderToolchains, MapSame, RefsSame, routeVars, refVars
  <2>flow. FlowOK'
    BY <1>8, Zenon DEF UpdateSenderToolchains, TypeInv, TypeOK, WorkOK, FlowOK
  <2>grow. Grows
    BY <2>6, Zenon DEF Grows, MapSame, RefsSame
  <2> QED
    BY <2>grow, <2>flow, <2>1, <2>4, <2>5, <2>6, MapFrame, RefsFrame, Zenon DEF TypeInv
<1> QED
  BY <1>1, <1>2, <1>3, <1>4, <1>5, <1>6, <1>7, <1>8, Zenon DEF PartyStep

\* Every step behind a reference keeps types, map and counts, and takes nothing back.
LEMMA RefSound ==
  ASSUME RoutesInv, NEW k \in DOMAIN att, RefStep(k) \/ PassOn(k)
  PROVE  RoutesInv' /\ Grows
<1> USE DEF RoutesInv
<1>0. WorkOK
  BY Zenon DEF TypeInv
<1>1. CASE DecRefCount(k)
  <2>1. /\ RefCountsExact' /\ rx' \in [Ids -> Nat] /\ tx' \in [Ids -> Nat]
        /\ WorkOK' /\ DOMAIN att' = DOMAIN att
        /\ \A l \in DOMAIN att : att'[l].party = att[l].party /\ att'[l].route = att[l].route
    BY <1>1, DecCounts, Zenon
  <2>2. TypeOK' /\ FlowOK'
    BY <1>1, <2>1, Zenon DEF DecRefCount, TypeInv, TypeOK, FlowOK, partyVars, routeVars, callVars
  <2>3. MadeInv'
    BY <1>1, <2>1, Zenon DEF DecRefCount, TypeInv, MadeInv, partyVars, routeVars, callVars
  <2>4. MapSame
    BY <1>1, Zenon DEF DecRefCount, MapSame, routeVars
  <2>grow. Grows
    BY <2>1, <2>4, Zenon DEF Grows, MapSame
  <2> QED
    BY <2>grow, <2>1, <2>2, <2>3, <2>4, MapFrame, Zenon DEF TypeInv
<1>2. CASE LoadOther(k) \/ CancelRoute(k) \/ RemoveUuid(k)
  <2>1. PICK q \in {"cancel", "remove", "end"} : Move(k, q)
    BY <1>2, Zenon DEF LoadOther, CancelRoute, RemoveUuid
  <2>2. att[k].pc \in {"load", "cancel", "remove"}
    BY <1>2, Zenon DEF LoadOther, CancelRoute, RemoveUuid, At
  <2>3. /\ att' \in Seq(Refs) /\ DOMAIN att' = DOMAIN att /\ att'[k].pc = q
        /\ \A l \in DOMAIN att :
             /\ att'[l].party = att[l].party /\ att'[l].route = att[l].route
             /\ l # k => att'[l] = att[l]
    BY <1>0, <2>1, Moved, Zenon DEF RefSteps
  <2>4. UNCHANGED <<rx, tx, partyVars, made, routes, closed, callVars>>
    BY <1>2, Zenon DEF LoadOther, CancelRoute, RemoveUuid, routeVars
  <2>5. cancelled' = cancelled \/ cancelled' = cancelled \cup {att[k].route}
    BY <1>2, Zenon DEF LoadOther, CancelRoute, RemoveUuid, routeVars
  <2>6. RefCountsExact'
    BY <2>1, <2>2, <2>3, <2>4, CountsKept, Zenon
  <2>7. att[k].route \in Ids
    <3>1. att[k] \in Refs
      BY <1>0 DEF WorkOK
    <3> QED
      BY <3>1, Zenon DEF Refs
  <2>8. TypeOK' /\ FlowOK'
    BY <2>4, <2>5, <2>7, Zenon DEF TypeInv, TypeOK, FlowOK, partyVars, callVars
  <2>9. WorkOK'
    BY <2>3, <2>4, Zenon DEF TypeInv, WorkOK, partyVars
  <2>10. MadeInv'
    BY <2>3, <2>4, <2>5, Zenon DEF TypeInv, MadeInv, partyVars, callVars
  <2>11. MapSame
    BY <2>4, Zenon DEF MapSame
  <2>grow. Grows
    BY <2>3, <2>11, Zenon DEF Grows, MapSame
  <2> QED
    BY <2>grow, <2>6, <2>8, <2>9, <2>10, <2>11, MapFrame, Zenon DEF TypeInv
<1>3. CASE PassOn(k)
  <2>1. att[k].pc = "pass" /\ att' = [att EXCEPT ![k] = [@ EXCEPT !.pc = "wait", !.req = {}]]
    BY <1>3, Zenon DEF PassOn, At
  <2>2. /\ att' \in Seq(Refs) /\ DOMAIN att' = DOMAIN att /\ att'[k].pc = "wait"
        /\ \A l \in DOMAIN att :
             /\ att'[l].party = att[l].party /\ att'[l].route = att[l].route
             /\ l # k => att'[l] = att[l]
    <3>1. "wait" \in RefSteps /\ {} \in SUBSET Calls
      BY Zenon DEF RefSteps
    <3> QED
      BY <1>0, <2>1, <3>1, Carried, Zenon
  <2>3. RefCountsExact'
    BY <1>3, <2>1, <2>2, CountsKept, Zenon DEF PassOn
  <2>4. TypeOK' /\ FlowOK'
    BY <1>3 DEF PassOn, TypeInv, TypeOK, FlowOK, partyVars, routeVars
  <2>5. WorkOK'
    BY <1>3, <2>2, Zenon DEF PassOn, TypeInv, WorkOK, partyVars
  <2>6. MadeInv'
    BY <1>3, <2>2, Zenon DEF PassOn, TypeInv, MadeInv, partyVars, routeVars
  <2>7. MapSame
    BY <1>3, Zenon DEF PassOn, MapSame, routeVars
  <2>grow. Grows
    BY <2>2, <2>7, Zenon DEF Grows, MapSame
  <2> QED
    BY <2>grow, <2>3, <2>4, <2>5, <2>6, <2>7, MapFrame, Zenon DEF TypeInv
<1> QED
  BY <1>1, <1>2, <1>3, Zenon DEF RefStep

\* Closing a route removes it, and no other, from the map.
LEMMA CloseSound ==
  ASSUME RoutesInv, NEW i \in Ids, CloseRoute(i)
  PROVE  RoutesInv' /\ Grows
<1> USE DEF RoutesInv
<1>1. i \in DOMAIN made /\ i \notin closed /\ made \in Seq(Tcs)
  BY Zenon DEF CloseRoute, TypeInv, TypeOK, MadeInv
<1>2. made[i] \in Tcs /\ routes[made[i]] = i
  BY <1>1 DEF MapHoldsOpenRoutes
<1>3. /\ closed' = closed \cup {i} /\ made' = made
      /\ routes' = [routes EXCEPT ![made[i]] = NoRoute]
  BY Zenon DEF CloseRoute
<1>4. NoRoute \notin Ids
  BY RouterAssumptions DEF NoRoute, Ids
<1>5. MapHoldsOpenRoutes'
  <2> SUFFICES ASSUME NEW t \in Tcs, NEW j \in Ids
               PROVE  (routes'[t] = j) <=> (j \in DOMAIN made /\ made[j] = t /\ j \notin closed')
    BY <1>3, Zenon DEF MapHoldsOpenRoutes
  <2>1. (routes[t] = j) <=> (j \in DOMAIN made /\ made[j] = t /\ j \notin closed)
    BY Zenon DEF MapHoldsOpenRoutes
  <2>2. routes'[t] = IF t = made[i] THEN NoRoute ELSE routes[t]
    BY <1>3, Zenon DEF TypeInv, TypeOK
  <2> QED
    BY <1>2, <1>3, <1>4, <2>1, <2>2, Zenon
<1>6. TypeOK'
  BY <1>2, <1>3, Zenon DEF CloseRoute, TypeInv, TypeOK, partyVars, refVars, callVars
<1>7. WorkOK' /\ FlowOK' /\ MadeInv'
  BY Zenon DEF CloseRoute, TypeInv, WorkOK, FlowOK, MadeInv, partyVars, refVars, callVars
<1>8. RefsSame
  BY Zenon DEF CloseRoute, RefsSame, refVars
<1>9. Grows
  BY <1>3, <1>8, Zenon DEF Grows, RefsSame
<1> QED
  BY <1>9, <1>5, <1>6, <1>7, <1>8, RefsFrame, Zenon DEF TypeInv

\* Every step of a call of Route keeps types, map and counts, and takes nothing back.
LEMMA CallSound ==
  ASSUME RoutesInv, NEW x \in Calls, RouteLookup(x) \/ CallStep(x)
  PROVE  RoutesInv' /\ Grows
<1> USE DEF RoutesInv
<1>1. CASE RouteLookup(x)
  <2>1. PICK i \in Ids : RouteForToolchain(CallTc[x], i) /\ callRt' = [callRt EXCEPT ![x] = i]
    BY <1>1, Zenon DEF RouteLookup
  <2>2. CallTc[x] \in Tcs /\ closed' = closed
    BY <1>1, RouterAssumptions, Zenon DEF RouteLookup
  <2>3. /\ made' \in Seq(Tcs) /\ Len(made') <= MaxRoutes
        /\ routes' \in [Tcs -> Ids \cup {NoRoute}]
        /\ i \in DOMAIN made' /\ DOMAIN made \subseteq DOMAIN made' /\ MapHoldsOpenRoutes'
        /\ \A j \in DOMAIN made : made'[j] = made[j]
    BY <2>1, <2>2, RouteFound, Zenon
  <2>4. TypeOK'
    BY <1>1, <2>1, <2>3, Zenon DEF RouteLookup, TypeInv, TypeOK, partyVars, refVars
  <2>5. WorkOK' /\ FlowOK'
    BY <1>1, Zenon DEF RouteLookup, TypeInv, WorkOK, FlowOK, partyVars, refVars
  <2>6. MadeInv'
    BY <1>1, <2>1, <2>3, Zenon DEF RouteLookup, TypeInv, TypeOK, MadeInv, partyVars, refVars
  <2>7. RefsSame
    BY <1>1, Zenon DEF RouteLookup, RefsSame, refVars
  <2>grow. Grows
    BY <2>2, <2>3, <2>7, Zenon DEF Grows, RefsSame
  <2> QED
    BY <2>grow, <2>3, <2>4, <2>5, <2>6, <2>7, RefsFrame, Zenon DEF TypeInv
<1>2. CASE RouteCheck(x) \/ RouteCancelled(x) \/ RoutePanic(x)
  <2>1. /\ UNCHANGED <<partyVars, routeVars, refVars, callRt, delivered>>
        /\ call[x] # "new" /\ crashed' \in BOOLEAN
        /\ \E q \in {"noagents", "select", "cancelled", "panic"} : call' = [call EXCEPT ![x] = q]
    BY <1>2, Zenon DEF RouteCheck, RouteCancelled, RoutePanic, TypeInv, TypeOK
  <2>2. TypeOK' /\ FlowOK'
    BY <2>1 DEF TypeInv, TypeOK, FlowOK, partyVars, routeVars, refVars
  <2>3. WorkOK'
    BY <2>1, Zenon DEF TypeInv, WorkOK, partyVars, refVars
  <2>4. MadeInv'
    BY <2>1, Zenon DEF TypeInv, TypeOK, MadeInv, partyVars, routeVars, refVars
  <2>5. MapSame /\ RefsSame
    BY <2>1, Zenon DEF MapSame, RefsSame, routeVars, refVars
  <2>grow. Grows
    BY <2>5, Zenon DEF Grows, MapSame, RefsSame
  <2> QED
    BY <2>grow, <2>2, <2>3, <2>4, <2>5, MapFrame, RefsFrame, Zenon DEF TypeInv
<1>3. ASSUME NEW k \in DOMAIN att, RouteHandOff(x, k)
      PROVE  RoutesInv' /\ Grows
  <2>1. /\ att[k].pc = "wait" /\ call[x] = "select"
        /\ att' = [att EXCEPT ![k] = [@ EXCEPT !.pc = "pass", !.req = {x}]]
    BY <1>3, Zenon DEF RouteHandOff, At
  <2>2. /\ att' \in Seq(Refs) /\ DOMAIN att' = DOMAIN att /\ att'[k].pc = "pass"
        /\ \A l \in DOMAIN att :
             /\ att'[l].party = att[l].party /\ att'[l].route = att[l].route
             /\ l # k => att'[l] = att[l]
    <3>1. "pass" \in RefSteps /\ {x} \in SUBSET Calls /\ WorkOK
      BY Zenon DEF RefSteps, TypeInv
    <3> QED
      BY <2>1, <3>1, Carried, Zenon
  <2>3. RefCountsExact'
    BY <1>3, <2>1, <2>2, CountsKept, Zenon DEF RouteHandOff
  <2>4. TypeOK' /\ FlowOK'
    BY <1>3, Zenon DEF RouteHandOff, TypeInv, TypeOK, FlowOK, partyVars, routeVars
  <2>5. WorkOK'
    BY <1>3, <2>2, Zenon DEF RouteHandOff, TypeInv, WorkOK, partyVars
  <2>6. MadeInv'
    BY <1>3, <2>1, <2>2, Zenon DEF RouteHandOff, TypeInv, TypeOK, MadeInv, partyVars, routeVars
  <2>7. MapSame
    BY <1>3, Zenon DEF RouteHandOff, MapSame, routeVars
  <2>grow. Grows
    BY <2>2, <2>7, Zenon DEF Grows, MapSame
  <2> QED
    BY <2>grow, <2>3, <2>4, <2>5, <2>6, <2>7, MapFrame, Zenon DEF TypeInv
<1> QED
  BY <1>1, <1>2, <1>3, Zenon DEF CallStep

\* Every step keeps types, map and counts, and takes nothing back.
LEMMA RoutesStep ==
  ASSUME RoutesInv, Next
  PROVE  RoutesInv' /\ Grows
<1>1. \A c \in Cds : c \in Parties
  BY Zenon DEF Parties
<1> QED
  BY <1>1, PartySound, RefSound, CloseSound, CallSound, Zenon DEF Next

-----------------------------------------------------------------------------
\* Stream p has, or had, a reference to a route of toolchain t.
HasRef(p, t) == \E k \in DOMAIN att : att[k].party = p /\ made[att[k].route] = t

\* Until AddSender or AddReceiver returns, each toolchain of the stream is either
\* attached to or still queued; afterwards all of them were attached to.
OfferAt(p) ==
  /\ phase[p] = "off" => ctx[p] = "off"
  /\ cur[p] # NoRoute /\ drop[p] = {} => made[cur[p]] = Head(queue[p])
  /\ phase[p] = "adding" => \A t \in Items(TcsOf[p]) : t \in Items(queue[p]) \/ HasRef(p, t)
  /\ phase[p] \in {"ready", "updating", "end"} => \A t \in Items(TcsOf[p]) : HasRef(p, t)
OfferInv == \A p \in Parties : OfferAt(p)

LEMMA HasRefKept ==
  ASSUME RoutesInv, Grows, NEW p \in Parties, NEW t, HasRef(p, t)
  PROVE  HasRef(p, t)'
<1>1. PICK k \in DOMAIN att : att[k].party = p /\ made[att[k].route] = t
  BY Zenon DEF HasRef
<1>2. att[k].route \in DOMAIN made
  BY Zenon DEF RoutesInv, TypeInv, MadeInv
<1>3. k \in DOMAIN att' /\ att'[k].party = p /\ made'[att'[k].route] = t
  BY <1>1, <1>2, Zenon DEF Grows
<1> QED
  BY <1>3, Zenon DEF HasRef

\* A step that leaves a stream alone keeps what it has attached to.
LEMMA OfferKept ==
  ASSUME RoutesInv, Grows, NEW p \in Parties, OfferAt(p),
         ctx'[p] = ctx[p] \/ phase[p] # "off",
         phase'[p] = phase[p], queue'[p] = queue[p], drop'[p] = drop[p], cur'[p] = cur[p]
  PROVE  OfferAt(p)'
<1>1. \A t \in Items(TcsOf[p]) : HasRef(p, t) => HasRef(p, t)'
  BY HasRefKept, Zenon
<1>2. cur[p] # NoRoute => made'[cur[p]] = made[cur[p]]
  BY Zenon DEF RoutesInv, TypeInv, MadeInv, Grows
<1> QED
  BY <1>1, <1>2, Zenon DEF OfferAt

\* Every step keeps what the streams have attached to.
LEMMA OfferStep ==
  ASSUME RoutesInv, OfferInv, Next
  PROVE  OfferInv'
<1>0. Grows /\ RoutesInv'
  BY RoutesStep, Zenon
<1>1. /\ ctx \in [Parties -> {"off", "live", "done"}] /\ queue \in [Parties -> Seq(Tcs)]
      /\ phase \in [Parties -> {"off", "adding", "ready", "updating", "end"}]
      /\ cur \in [Parties -> Ids \cup {NoRoute}] /\ drop \in [Parties -> SUBSET Nat]
      /\ NoRoute \notin Ids
  BY RouterAssumptions DEF RoutesInv, TypeInv, TypeOK, WorkOK, NoRoute, Ids
<1>2. ASSUME UNCHANGED partyVars
      PROVE  OfferInv'
  BY <1>0, <1>2, OfferKept, Zenon DEF OfferInv, partyVars
<1>3. ASSUME NEW p \in Parties, OfferAt(p)',
             \A q \in Parties \ {p} :
                /\ ctx'[q] = ctx[q] /\ phase'[q] = phase[q]
                /\ queue'[q] = queue[q] /\ drop'[q] = drop[q] /\ cur'[q] = cur[q]
      PROVE  OfferInv'
  BY <1>0, <1>3, OfferKept, Zenon DEF OfferInv
<1>4. ASSUME NEW p \in Parties, Add(p)
      PROVE  OfferInv'
  <2>1. OfferAt(p)'
    <3>1. cur[p] = NoRoute
      BY <1>4, Zenon DEF Add, RoutesInv, TypeInv, FlowOK
    <3> QED
      BY <1>1, <1>4, <3>1, Zenon DEF Add, OfferAt
  <2> QED
    BY <1>1, <1>3, <1>4, <2>1, Zenon DEF Add
<1>5. ASSUME NEW p \in Parties, End(p)
      PROVE  OfferInv'
  <2>1. OfferAt(p) /\ phase[p] # "off"
    BY <1>5, Zenon DEF End, OfferInv, OfferAt
  <2>2. OfferAt(p)'
    BY <1>0, <1>5, <2>1, OfferKept, Zenon DEF End
  <2> QED
    BY <1>1, <1>3, <1>5, <2>2, Zenon DEF End
<1>6. ASSUME NEW p \in Parties, Lookup(p)
      PROVE  OfferInv'
  <2>1. PICK i \in Ids : RouteForToolchain(Head(queue[p]), i) /\ cur' = [cur EXCEPT ![p] = i]
    BY <1>6, Zenon DEF Lookup
  <2>2. made'[i] = Head(queue[p])
    <3>1. Head(queue[p]) \in Tcs /\ closed' = closed
      BY <1>1, <1>6 DEF Lookup
    <3> QED
      BY <2>1, <3>1, RouteFound, Zenon DEF RoutesInv
  <2>3. \A t \in Items(TcsOf[p]) : HasRef(p, t) => HasRef(p, t)'
    BY <1>0, HasRefKept, Zenon
  <2>4. OfferAt(p)'
    BY <1>1, <1>6, <2>1, <2>2, <2>3, Zenon DEF Lookup, OfferInv, OfferAt
  <2> QED
    BY <1>1, <1>3, <1>6, <2>1, <2>4, Zenon DEF Lookup
<1>7. ASSUME NEW p \in Parties, Attach(p)
      PROVE  OfferInv'
  <2>1. OfferAt(p) /\ queue[p] # <<>> /\ made[cur[p]] = Head(queue[p]) /\ queue[p] \in Seq(Tcs)
    BY <1>1, <1>7, Zenon DEF Attach, OfferInv, OfferAt, RoutesInv, TypeInv, FlowOK
  <2>2. \A t \in Items(TcsOf[p]) : t = Head(queue[p]) => HasRef(p, t)'
    <3>1. TypeInv /\ made' = made
      BY <1>7, Zenon DEF RoutesInv, Attach, routeVars
    <3>2. /\ Len(att) + 1 \in DOMAIN att' /\ att'[Len(att) + 1].party = p
          /\ att'[Len(att) + 1].route = cur[p]
      BY <1>7, <3>1, Attached, Zenon
    <3> QED
      BY <2>1, <3>1, <3>2, Zenon DEF HasRef
  <2>3. \A t \in Items(TcsOf[p]) : HasRef(p, t) => HasRef(p, t)'
    BY <1>0, HasRefKept, Zenon
  <2>4. \A t : t \in Items(queue[p]) => t = Head(queue[p]) \/ t \in Items(Tail(queue[p]))
    <3> DEFINE w == queue[p]
    <3> SUFFICES ASSUME NEW k \in DOMAIN w, k # 1
                 PROVE  k - 1 \in DOMAIN Tail(w) /\ Tail(w)[k - 1] = w[k]
      <4>1. w \in Seq(Tcs) /\ w # <<>> /\ Head(w) = w[1]
        BY <2>1
      <4> QED
        BY <4>1, ZenonT(30) DEF Items
    <3>1. w \in Seq(Tcs) /\ w # <<>>
      BY <2>1, Zenon
    <3> HIDE DEF w
    <3> QED
      BY <3>1
  <2>5. queue'[p] = Tail(queue[p]) /\ cur'[p] = NoRoute /\ phase' = phase /\ ctx' = ctx
    BY <1>1, <1>7, Zenon DEF Attach
  <2>6. OfferAt(p)'
    BY <2>1, <2>2, <2>3, <2>4, <2>5, Zenon DEF OfferAt
  <2> QED
    BY <1>1, <1>3, <1>7, <2>6, Zenon DEF Attach
<1>8. ASSUME NEW p \in Parties, Added(p)
      PROVE  OfferInv'
  <2>1. \A t \in Items(TcsOf[p]) : HasRef(p, t) => HasRef(p, t)'
    BY <1>0, HasRefKept, Zenon
  <2>2. Items(<<>>) = {}
    BY DEF Items
  <2>3. OfferAt(p)'
    BY <1>1, <1>8, <2>1, <2>2, Zenon DEF Added, OfferInv, OfferAt
  <2> QED
    BY <1>1, <1>3, <1>8, <2>3, Zenon DEF Added
<1>9. ASSUME NEW p \in Parties, DropLookup(p) \/ DropCancel(p)
      PROVE  OfferInv'
  <2>1. \A t \in Items(TcsOf[p]) : HasRef(p, t) => HasRef(p, t)'
    BY <1>0, HasRefKept, Zenon
  <2>2. phase[p] = "updating" /\ phase' = phase /\ ctx' = ctx /\ queue' = queue
    BY <1>9, Zenon DEF DropLookup, DropCancel, FirstOf, RoutesInv, TypeInv, FlowOK
  <2>3. cur'[p] = NoRoute \/ drop'[p] # {}
    BY <1>1, <1>9, Zenon DEF DropLookup, DropCancel, FirstOf
  <2>4. OfferAt(p)'
    BY <2>1, <2>2, <2>3, Zenon DEF OfferInv, OfferAt
  <2> QED
    BY <1>1, <1>3, <1>9, <2>4, Zenon DEF DropLookup, DropCancel
<1>10. ASSUME NEW p \in Cds, UpdateSenderToolchains(p)
       PROVE  OfferInv'
  <2>0. p \in Parties
    BY Zenon DEF Parties
  <2>1. \A t \in Items(TcsOf[p]) : HasRef(p, t) => HasRef(p, t)'
    BY <1>0, <2>0, HasRefKept, Zenon
  <2>2. cur'[p] = NoRoute /\ phase'[p] = "updating" /\ phase[p] = "ready"
    BY <1>1, <1>10, <2>0, Zenon DEF UpdateSenderToolchains, RoutesInv, TypeInv, FlowOK
  <2>3. OfferAt(p)'
    BY <2>0, <2>1, <2>2, Zenon DEF OfferInv, OfferAt
  <2> QED
    BY <1>1, <1>3, <1>10, <2>0, <2>3, Zenon DEF UpdateSenderToolchains
<1>11. ASSUME NEW k \in DOMAIN att, RefStep(k) \/ PassOn(k)
       PROVE  UNCHANGED partyVars
  BY <1>11, Zenon DEF RefStep, PassOn, DecRefCount, LoadOther, CancelRoute, RemoveUuid
<1>12. ASSUME NEW x \in Calls, RouteLookup(x) \/ CallStep(x)
       PROVE  UNCHANGED partyVars
  BY <1>12, Zenon DEF RouteLookup, CallStep, RouteCheck, RouteHandOff, RouteCancelled, RoutePanic
<1>13. ASSUME NEW i \in Ids, CloseRoute(i)
       PROVE  UNCHANGED partyVars
  BY <1>13, Zenon DEF CloseRoute
<1> QED
  BY <1>2, <1>4, <1>5, <1>6, <1>7, <1>8, <1>9, <1>10, <1>11, <1>12, <1>13, Zenon DEF Next, PartyStep

-----------------------------------------------------------------------------
\* A consumerd's reference is held until its stream's context is done.
HeldInv ==
  \A k \in DOMAIN att :
    att[k].party \in Cds /\ ctx[att[k].party] # "done" => att[k].pc = "wait"

\* The route a call has found is the one its caller refers to, or that one is closed.
CallInv ==
  \A x \in Calls : call[x] # "new" =>
    /\ call[x] = "panic" => callRt[x] \in closed
    /\ CallTc[x] \in Items(TcsOf[Caller[x]]) =>
         \E k \in DOMAIN att :
           /\ att[k].party = Caller[x] /\ made[att[k].route] = CallTc[x]
           /\ att[k].route \in closed \cup {callRt[x]}

\* A request is with one relay, or was delivered, and only if Route has sent it.
DeliverInv ==
  \A x \in Calls :
    /\ delivered[x] \in {0, 1}
    /\ delivered[x] = 1 => call[x] = "sent"
    /\ \A k \in DOMAIN att : x \in att[k].req =>
         /\ call[x] = "sent" /\ delivered[x] = 0 /\ att[k].pc = "pass"
         /\ \A l \in DOMAIN att : x \in att[l].req => l = k

\* What the three invariants need to know of a step behind a reference.
LEMMA RefMoves ==
  ASSUME RoutesInv, NEW k \in DOMAIN att, RefStep(k)
  PROVE  /\ UNCHANGED <<ctx, call, callRt, delivered>> /\ DOMAIN att' = DOMAIN att
         /\ att[k].pc \in {"wait", "load", "cancel", "remove"}
         /\ att[k].pc = "wait" /\ att[k].party \in Cds => ctx[att[k].party] = "done"
         /\ \A l \in DOMAIN att :
              /\ att'[l].party = att[l].party /\ att'[l].req = att[l].req
              /\ l # k => att'[l] = att[l]
<1>1. WorkOK /\ TypeInv /\ RefCountsExact /\ Cds \cap Agents = {}
  BY RouterAssumptions, Zenon DEF RoutesInv, TypeInv
<1>2. CASE DecRefCount(k)
  <2>1. UNCHANGED <<ctx, call, callRt, delivered>> /\ att[k].pc = "wait"
    BY <1>2, Zenon DEF DecRefCount, At, partyVars, callVars
  <2>2. att[k].party \in Cds => ctx[att[k].party] = "done"
    BY <1>1, <1>2, Zenon DEF DecRefCount
  <2> QED
    BY <1>1, <1>2, <2>1, <2>2, DecCounts, Zenon
<1>3. CASE LoadOther(k) \/ CancelRoute(k) \/ RemoveUuid(k)
  <2>1. PICK q \in {"cancel", "remove", "end"} : Move(k, q)
    BY <1>3, Zenon DEF LoadOther, CancelRoute, RemoveUuid
  <2>2. q \in RefSteps
    BY Zenon DEF RefSteps
  <2>3. UNCHANGED <<ctx, call, callRt, delivered>> /\ att[k].pc \in {"load", "cancel", "remove"}
    BY <1>3, ZenonT(30) DEF LoadOther, CancelRoute, RemoveUuid, At, partyVars, callVars
  <2> QED
    BY <1>1, <2>1, <2>2, <2>3, Moved, Zenon
<1> QED
  BY <1>2, <1>3, Zenon DEF RefStep

\* ... and of a hand-off to a relay and of passing a request on.
LEMMA HandOffMoves ==
  ASSUME RoutesInv, NEW x \in Calls, NEW k \in DOMAIN att, RouteHandOff(x, k)
  PROVE  /\ UNCHANGED <<ctx, callRt, delivered>> /\ DOMAIN att' = DOMAIN att
         /\ call[x] = "select" /\ call' = [call EXCEPT ![x] = "sent"]
         /\ att[k].pc = "wait" /\ att[k].party \notin Cds
         /\ att'[k].pc = "pass" /\ att'[k].req = {x}
         /\ \A l \in DOMAIN att : att'[l].party = att[l].party /\ (l # k => att'[l] = att[l])
<1>1. WorkOK /\ "pass" \in RefSteps /\ {x} \in SUBSET Calls
  BY Zenon DEF RoutesInv, TypeInv, RefSteps
<1>2. att' = [att EXCEPT ![k] = [@ EXCEPT !.pc = "pass", !.req = {x}]]
  BY Zenon DEF RouteHandOff
<1>3. att[k].pc = "wait" /\ att[k].party \notin Cds
  BY RouterAssumptions, Zenon DEF RouteHandOff, At
<1>4. /\ UNCHANGED <<ctx, callRt, delivered>>
      /\ call[x] = "select" /\ call' = [call EXCEPT ![x] = "sent"]
  BY Zenon DEF RouteHandOff, partyVars
<1> QED
  BY <1>1, <1>2, <1>3, <1>4, Carried, ZenonT(30)

LEMMA PassMoves ==
  ASSUME RoutesInv, NEW k \in DOMAIN att, PassOn(k)
  PROVE  /\ UNCHANGED <<ctx, call, callRt>> /\ DOMAIN att' = DOMAIN att
         /\ delivered' = [x \in Calls |-> IF x \in att[k].req THEN delivered[x] + 1 ELSE delivered[x]]
         /\ att'[k].pc = "wait" /\ att'[k].req = {}
         /\ \A l \in DOMAIN att : att'[l].party = att[l].party /\ (l # k => att'[l] = att[l])
<1> DEFINE v == [att[k] EXCEPT !.pc = "wait", !.req = {}]
<1>1. att \in Seq(Refs) /\ att[k] \in Refs /\ att' = [att EXCEPT ![k] = v]
  BY DEF RoutesInv, TypeInv, WorkOK, PassOn
<1>2. v.pc = "wait" /\ v.req = {} /\ v.party = att[k].party
  BY <1>1, Zenon DEF Refs
<1>3. /\ UNCHANGED <<ctx, call, callRt>>
      /\ delivered' = [x \in Calls |-> IF x \in att[k].req THEN delivered[x] + 1 ELSE delivered[x]]
  BY Zenon DEF PassOn, partyVars
<1> HIDE DEF v
<1>4. /\ att'[k] = v /\ DOMAIN att' = DOMAIN att
      /\ \A l \in DOMAIN att : l # k => att'[l] = att[l]
  BY <1>1, Zenon
<1> QED
  BY <1>2, <1>3, <1>4, Zenon

\* The steps of streams and routes leave the calls and, but for Attach, the
\* references alone.
LEMMA QuietSteps ==
  ASSUME RoutesInv, Next
  PROVE  \/ UNCHANGED <<ctx, att, call, callRt, delivered>>
         \/ \E p \in Parties : (Add(p) \/ End(p)) /\ UNCHANGED <<att, call, callRt, delivered>>
         \/ \E p \in Parties : Attach(p) /\ UNCHANGED <<ctx, call, callRt, delivered>>
         \/ \E k \in DOMAIN att : RefStep(k) \/ PassOn(k)
         \/ \E x \in Calls : RouteLookup(x) \/ CallStep(x)
<1>1. ASSUME NEW p \in Parties, Add(p) \/ End(p)
      PROVE  UNCHANGED <<att, call, callRt, delivered>>
  BY <1>1, Zenon DEF Add, End, refVars, callVars
<1>2. ASSUME NEW p \in Parties, Lookup(p) \/ Added(p) \/ DropLookup(p) \/ DropCancel(p)
      PROVE  UNCHANGED <<ctx, att, call, callRt, delivered>>
  BY <1>2, Zenon DEF Lookup, Added, DropLookup, DropCancel, refVars, callVars
<1>3. ASSUME NEW p \in Parties, Attach(p)
      PROVE  UNCHANGED <<ctx, call, callRt, delivered>>
  BY <1>3, Zenon DEF Attach, callVars
<1>4. ASSUME NEW c \in Cds, UpdateSenderToolchains(c)
      PROVE  UNCHANGED <<ctx, att, call, callRt, delivered>>
  BY <1>4, Zenon DEF UpdateSenderToolchains, refVars, callVars
<1>5. ASSUME NEW i \in Ids, CloseRoute(i)
      PROVE  UNCHANGED <<ctx, att, call, callRt, delivered>>
  BY <1>5, Zenon DEF CloseRoute, partyVars, refVars, callVars
<1> QED
  BY <1>1, <1>2, <1>3, <1>4, <1>5, Zenon DEF Next, PartyStep

\* Every step keeps the references of consumerds whose stream lasts.
LEMMA HeldStep ==
  ASSUME RoutesInv, OfferInv, HeldInv, Next
  PROVE  HeldInv'
<1>0. TypeInv /\ ctx \in [Parties -> {"off", "live", "done"}]
  BY Zenon DEF RoutesInv, TypeInv, TypeOK
<1>1. ASSUME UNCHANGED <<ctx, att>>
      PROVE  HeldInv'
  BY <1>1, Zenon DEF HeldInv
<1>2. ASSUME NEW p \in Parties, Add(p) \/ End(p), att' = att
      PROVE  HeldInv'
  <2>1. ctx[p] # "done" /\ \A q \in Parties : q # p => ctx'[q] = ctx[q]
    BY <1>0, <1>2, Zenon DEF Add, End, OfferInv, OfferAt
  <2>2. \A k \in DOMAIN att : att[k].party \in Cds => att[k].party \in Parties
    BY Zenon DEF Parties
  <2> QED
    BY <1>2, <2>1, <2>2, Zenon DEF HeldInv
<1>3. ASSUME NEW p \in Parties, Attach(p), ctx' = ctx
      PROVE  HeldInv'
  BY <1>0, <1>3, Attached DEF HeldInv
<1>4. ASSUME NEW k \in DOMAIN att, RefStep(k)
      PROVE  HeldInv'
  BY <1>4, RefMoves DEF HeldInv
<1>5. ASSUME NEW k \in DOMAIN att, PassOn(k)
      PROVE  HeldInv'
  BY <1>5, PassMoves, Zenon DEF HeldInv
<1>6. ASSUME NEW x \in Calls, NEW k \in DOMAIN att, RouteHandOff(x, k)
      PROVE  HeldInv'
  BY <1>6, HandOffMoves DEF HeldInv
<1>7. ASSUME NEW x \in Calls,
             RouteLookup(x) \/ RouteCheck(x) \/ RouteCancelled(x) \/ RoutePanic(x)
      PROVE  HeldInv'
  <2>1. UNCHANGED <<ctx, att>>
    BY <1>7, Zenon DEF RouteLookup, RouteCheck, RouteCancelled, RoutePanic, partyVars, refVars
  <2> QED
    BY <1>1, <2>1, Zenon
<1> QED
  BY <1>1, <1>2, <1>3, <1>4, <1>5, <1>6, <1>7, QuietSteps, Zenon DEF CallStep

\* Every step keeps the route of a call and that of its caller's reference together.
LEMMA CallInvStep ==
  ASSUME RoutesInv, OfferInv, CallInv, Next
  PROVE  CallInv'
<1>0. Grows /\ RoutesInv'
  BY RoutesStep, Zenon
<1>1. /\ \A k \in DOMAIN att : att[k].route \in DOMAIN made
      /\ call \in [Calls -> {"new", "check", "select", "sent", "noagents", "cancelled", "panic"}]
      /\ callRt \in [Calls -> Ids \cup {NoRoute}]
  BY Zenon DEF RoutesInv, TypeInv, TypeOK, MadeInv
<1>2. ASSUME NEW x \in Calls, callRt'[x] = callRt[x], call[x] # "new",
             call'[x] = "panic" => callRt[x] \in closed'
      PROVE  /\ call'[x] = "panic" => callRt'[x] \in closed'
             /\ CallTc[x] \in Items(TcsOf[Caller[x]]) =>
                  \E k \in DOMAIN att' :
                    /\ att'[k].party = Caller[x] /\ made'[att'[k].route] = CallTc[x]
                    /\ att'[k].route \in closed' \cup {callRt'[x]}
  BY <1>0, <1>1, <1>2 DEF CallInv, Grows
<1>3. ASSUME UNCHANGED <<call, callRt>>
      PROVE  CallInv'
  BY <1>0, <1>2, <1>3, Zenon DEF CallInv, Grows
<1>4. ASSUME NEW x \in Calls, callRt' = callRt, call[x] # "new",
             NEW q, call' = [call EXCEPT ![x] = q], q = "panic" => callRt[x] \in closed
      PROVE  CallInv'
  BY <1>0, <1>1, <1>2, <1>4 DEF CallInv, Grows
<1>5. ASSUME NEW x \in Calls, RouteLookup(x)
      PROVE  CallInv'
  <2>1. PICK i \in Ids : RouteForToolchain(CallTc[x], i) /\ callRt' = [callRt EXCEPT ![x] = i]
    BY <1>5, Zenon DEF RouteLookup
  <2>2. CallTc[x] \in Tcs /\ Caller[x] \in Parties /\ UNCHANGED <<closed, att>>
    BY <1>5, RouterAssumptions, Zenon DEF RouteLookup, Parties, refVars
  <2>3. routes[CallTc[x]] \in {i, NoRoute} /\ TypeInv /\ MapHoldsOpenRoutes
    BY <2>1, <2>2, RouteFound, Zenon DEF RoutesInv
  <2>4. \A k \in DOMAIN att : made[att[k].route] = CallTc[x] => att[k].route \in closed \cup {i}
    <3> SUFFICES ASSUME NEW k \in DOMAIN att, made[att[k].route] = CallTc[x], att[k].route \notin closed
                 PROVE  att[k].route = i
      OBVIOUS
    <3>1. att[k].route \in Ids /\ att[k].route # NoRoute
      <4>1. att[k] \in Refs
        BY <2>3 DEF TypeInv, WorkOK
      <4> QED
        BY <4>1, RouterAssumptions DEF Refs, Ids, NoRoute
    <3>2. routes[CallTc[x]] = att[k].route
      BY <1>1, <2>2, <2>3, <3>1, Zenon DEF MapHoldsOpenRoutes
    <3> QED
      BY <2>3, <3>1, <3>2, Zenon
  <2>5. CallTc[x] \in Items(TcsOf[Caller[x]]) => HasRef(Caller[x], CallTc[x])
    BY <1>5, <2>2, Zenon DEF RouteLookup, OfferInv, OfferAt
  <2>6. CallTc[x] \in Items(TcsOf[Caller[x]]) =>
          \E k \in DOMAIN att' :
            /\ att'[k].party = Caller[x] /\ made'[att'[k].route] = CallTc[x]
            /\ att'[k].route \in closed' \cup {i}
    BY <1>0, <1>1, <2>2, <2>4, <2>5, Zenon DEF HasRef, Grows
  <2>7. call' = [call EXCEPT ![x] = "check"]
    BY <1>5, Zenon DEF RouteLookup
  <2>8. callRt'[x] = i /\ call'[x] = "check"
    BY <1>1, <2>1, <2>7, Zenon
  <2>9. \A y \in Calls : y # x => callRt'[y] = callRt[y] /\ call'[y] = call[y]
    BY <1>1, <2>1, <2>7, Zenon
  <2> QED
    BY <1>0, <1>2, <2>6, <2>8, <2>9 DEF CallInv, Grows
<1>6. ASSUME NEW x \in Calls, RouteCheck(x) \/ RouteCancelled(x) \/ RoutePanic(x)
      PROVE  CallInv'
  <2>1. /\ callRt' = callRt /\ call[x] # "new"
        /\ \E q : call' = [call EXCEPT ![x] = q] /\ (q = "panic" => callRt[x] \in closed)
    BY <1>6, Zenon DEF RouteCheck, RouteCancelled, RoutePanic
  <2> QED
    BY <1>4, <2>1, Zenon
<1>7. ASSUME NEW x \in Calls, NEW k \in DOMAIN att, RouteHandOff(x, k)
      PROVE  CallInv'
  <2>1. callRt' = callRt /\ call[x] # "new" /\ call' = [call EXCEPT ![x] = "sent"]
    BY <1>7, Zenon DEF RouteHandOff
  <2> QED
    BY <1>4, <2>1, Zenon
<1>8. ASSUME NEW k \in DOMAIN att, RefStep(k) \/ PassOn(k)
      PROVE  CallInv'
  BY <1>3, <1>8, RefMoves, PassMoves, Zenon
<1> QED
  BY <1>3, <1>5, <1>6, <1>7, <1>8, QuietSteps, Zenon DEF CallStep

\* Every step hands a request to one relay at most and delivers it at most once.
LEMMA DeliverStep ==
  ASSUME RoutesInv, DeliverInv, Next
  PROVE  DeliverInv'
<1>0. /\ TypeInv /\ delivered \in [Calls -> Nat]
      /\ call \in [Calls -> {"new", "check", "select", "sent", "noagents", "cancelled", "panic"}]
  BY Zenon DEF RoutesInv, TypeInv, TypeOK
<1>1. ASSUME UNCHANGED <<att, call, delivered>>
      PROVE  DeliverInv'
  BY <1>1 DEF DeliverInv
<1>2. ASSUME NEW p \in Parties, Attach(p), UNCHANGED <<call, delivered>>
      PROVE  DeliverInv'
  <2>1. \A k \in DOMAIN att' : k \in DOMAIN att \/ att'[k].req = {}
    BY <1>0, <1>2, Attached, Zenon
  <2>2. \A k \in DOMAIN att : att'[k] = att[k]
    BY <1>0, <1>2, Attached, Zenon
  <2> QED
    BY <1>2, <2>1, <2>2 DEF DeliverInv
<1>3. ASSUME NEW k \in DOMAIN att, RefStep(k)
      PROVE  DeliverInv'
  <2>1. \A x \in Calls : x \notin att[k].req
    BY <1>3, RefMoves, Zenon DEF DeliverInv
  <2> QED
    BY <1>3, <2>1, RefMoves DEF DeliverInv
<1>4. ASSUME NEW k \in DOMAIN att, PassOn(k)
      PROVE  DeliverInv'
  <2>1. /\ call' = call /\ DOMAIN att' = DOMAIN att
        /\ \A x \in Calls : delivered'[x] = IF x \in att[k].req THEN delivered[x] + 1 ELSE delivered[x]
        /\ att'[k].req = {} /\ \A l \in DOMAIN att : l # k => att'[l] = att[l]
    BY <1>4, PassMoves
  <2>2. \A x \in Calls : x \in att[k].req =>
          /\ delivered'[x] = 1 /\ call[x] = "sent"
          /\ \A l \in DOMAIN att : x \notin att'[l].req
    BY <2>1 DEF DeliverInv
  <2>3. \A x \in Calls : x \notin att[k].req => delivered'[x] = delivered[x]
    BY <2>1, Zenon
  <2> QED
    BY <2>1, <2>2, <2>3 DEF DeliverInv
<1>5. ASSUME NEW x \in Calls, NEW k \in DOMAIN att, RouteHandOff(x, k)
      PROVE  DeliverInv'
  <2>1. /\ delivered' = delivered /\ DOMAIN att' = DOMAIN att
        /\ call[x] = "select" /\ call' = [call EXCEPT ![x] = "sent"]
        /\ att[k].pc = "wait" /\ att'[k].pc = "pass" /\ att'[k].req = {x}
        /\ \A l \in DOMAIN att : l # k => att'[l] = att[l]
    BY <1>5, HandOffMoves
  <2>2. delivered[x] = 0 /\ \A l \in DOMAIN att : x \notin att[l].req
    BY <1>0, <2>1, Zenon DEF DeliverInv
  <2>3. \A y \in Calls : y \notin att[k].req
    BY <2>1, Zenon DEF DeliverInv
  <2>4. call'[x] = "sent" /\ \A y \in Calls : y # x => call'[y] = call[y]
    BY <1>0, <2>1, Zenon
  <2> QED
    BY <2>1, <2>2, <2>3, <2>4 DEF DeliverInv
<1>6. ASSUME NEW x \in Calls,
             RouteLookup(x) \/ RouteCheck(x) \/ RouteCancelled(x) \/ RoutePanic(x)
      PROVE  DeliverInv'
  <2>1. UNCHANGED <<att, delivered>> /\ call[x] # "sent" /\ \E q : call' = [call EXCEPT ![x] = q]
    BY <1>6, Zenon DEF RouteLookup, RouteCheck, RouteCancelled, RoutePanic, refVars
  <2>2. \A y \in Calls : y # x => call'[y] = call[y]
    BY <1>0, <2>1, Zenon
  <2> QED
    BY <2>1, <2>2 DEF DeliverInv
<1> QED
  BY <1>1, <1>2, <1>3, <1>4, <1>5, <1>6, QuietSteps, Zenon DEF CallStep

-----------------------------------------------------------------------------
RouterInv == RoutesInv /\ OfferInv /\ HeldInv /\ CallInv /\ DeliverInv

LEMMA RouterInitially == Init => RouterInv
<1> SUFFICES ASSUME Init
             PROVE  RouterInv
  OBVIOUS
<1>1. NoRoute \notin Ids /\ MaxRoutes \in Nat /\ NoRoute = 0
  BY RouterAssumptions DEF NoRoute, Ids
<1>2. att = <<>> /\ made = <<>> /\ DOMAIN att = {} /\ DOMAIN made = {}
  BY DEF Init
<1>3. att \in Seq(Refs) /\ made \in Seq(Tcs) /\ Len(made) = 0
  BY <1>2
<1>4. TypeOK
  <2>1. /\ ctx \in [Parties -> {"off", "live", "done"}]
        /\ phase \in [Parties -> {"off", "adding", "ready", "updating", "end"}]
        /\ routes \in [Tcs -> Ids \cup {NoRoute}] /\ cur \in [Parties -> Ids \cup {NoRoute}]
    BY Zenon DEF Init
  <2>2. /\ call \in [Calls -> {"new", "check", "select", "sent", "noagents", "cancelled", "panic"}]
        /\ callRt \in [Calls -> Ids \cup {NoRoute}]
    BY Zenon DEF Init
  <2>3. rx \in [Ids -> Nat] /\ tx \in [Ids -> Nat] /\ delivered \in [Calls -> Nat]
    BY Zenon DEF Init
  <2>4. cancelled = {} /\ closed = {} /\ crashed \in BOOLEAN
    BY Zenon DEF Init
  <2> QED
    BY <1>1, <1>3, <2>1, <2>2, <2>3, <2>4 DEF TypeOK
<1>5. WorkOK
  <2>1. queue \in [Parties -> Seq(Tcs)]
    BY DEF Init
  <2> QED
    BY <1>3, <2>1, Zenon DEF Init, WorkOK
<1>6. FlowOK /\ MadeInv
  BY <1>2, Zenon DEF Init, FlowOK, MadeInv
<1>7. MapHoldsOpenRoutes
  BY <1>1, <1>2, Zenon DEF Init, MapHoldsOpenRoutes
<1>8. RefCountsExact
  <2>1. \A i \in Ids : Holding(i, Agents) = {} /\ Holding(i, Cds) = {}
    BY <1>2, Zenon DEF Holding
  <2> QED
    BY <2>1, FS_EmptySet, Zenon DEF Init, RefCountsExact
<1>9. OfferInv
  BY Zenon DEF Init, OfferInv, OfferAt
<1>10. HeldInv /\ CallInv /\ DeliverInv
  BY <1>2 DEF Init, HeldInv, CallInv, DeliverInv
<1> QED
  BY <1>4, <1>5, <1>6, <1>7, <1>8, <1>9, <1>10, Zenon DEF RouterInv, RoutesInv, TypeInv

\* The inductive invariant of the life of a route.
THEOREM RouterInvariant == Spec => []RouterInv
<1>1. ASSUME RouterInv, [Next]_vars
      PROVE  RouterInv'
  <2>1. CASE Next
    BY <1>1, <2>1, RoutesStep, OfferStep, HeldStep, CallInvStep, DeliverStep, Zenon DEF RouterInv
  <2>2. CASE UNCHANGED vars
    <3> USE <2>2 DEF vars, partyVars, routeVars, refVars, callVars
    <3>1. TypeOK' /\ WorkOK' /\ FlowOK' /\ MadeInv'
      BY <1>1, Zenon DEF RouterInv, RoutesInv, TypeInv, TypeOK, WorkOK, FlowOK, MadeInv
    <3>2. MapHoldsOpenRoutes' /\ RefCountsExact'
      BY <1>1, MapFrame, RefsFrame, Zenon DEF RouterInv, RoutesInv, MapSame, RefsSame
    <3>3. OfferInv'
      BY <1>1 DEF RouterInv, OfferInv, OfferAt, HasRef
    <3>4. HeldInv' /\ CallInv' /\ DeliverInv'
      BY <1>1, Zenon DEF RouterInv, HeldInv, CallInv, DeliverInv
    <3> QED
      BY <3>1, <3>2, <3>3, <3>4, Zenon DEF RouterInv, RoutesInv, TypeInv
  <2> QED
    BY <1>1, <2>1, <2>2, Zenon
<1> QED
  BY <1>1, RouterInitially, PTL DEF Spec

\* rxRefCount and txRefCount count the goroutines that hold a reference, however
\* streams end, routes close and updates attach meanwhile (router.go:57-163).
THEOREM RefCountsExactAlways == Spec => []RefCountsExact
<1>1. RouterInv => RefCountsExact
  BY Zenon DEF RouterInv, RoutesInv
<1> QED
  BY <1>1, RouterInvariant, PTL

\* Router.routes holds exactly the routes whose channel is open, so that a
\* toolchain has one at most (router.go:192-227).
THEOREM MapHoldsOpenRoutesAlways == Spec => []MapHoldsOpenRoutes
<1>1. RouterInv => MapHoldsOpenRoutes
  BY Zenon DEF RouterInv, RoutesInv
<1> QED
  BY <1>1, RouterInvariant, PTL

\* A request that Route has sent leaves one relay, once (router.go:108-163, 301-324).
THEOREM DeliveredOnceAlways == Spec => []DeliveredOnce
<1>1. ASSUME RouterInv
      PROVE  DeliveredOnce
  <2> SUFFICES ASSUME NEW x \in Calls
               PROVE  /\ delivered[x] + Cardinality({k \in DOMAIN att : x \in att[k].req}) <= 1
                      /\ delivered[x] > 0 => call[x] = "sent"
    BY Zenon DEF DeliveredOnce
  <2> DEFINE R == {k \in DOMAIN att : x \in att[k].req}
  <2>1. delivered[x] \in {0, 1} /\ (delivered[x] > 0 => call[x] = "sent")
    BY <1>1 DEF RouterInv, DeliverInv
  <2>2. CASE R = {}
    <3>1. Cardinality(R) = 0
      BY <2>2, FS_EmptySet, Zenon
    <3> HIDE DEF R
    <3>2. delivered[x] + Cardinality(R) <= 1
      BY <2>1, <3>1
    <3> QED
      BY <2>1, <3>2, Zenon DEF R
  <2>3. CASE R # {}
    <3>1. PICK k \in R : TRUE
      BY <2>3, Zenon
    <3>2. delivered[x] = 0 /\ R = {k}
      BY <1>1, <3>1, Zenon DEF RouterInv, DeliverInv
    <3>3. Cardinality(R) = 1
      BY <3>2, FS_Singleton, Zenon
    <3> QED
      BY <2>1, <3>2, <3>3
  <2> QED
    BY <2>2, <2>3, Zenon
<1> QED
  BY <1>1, RouterInvariant, PTL

\* Route panics only for a caller whose own reference is stranded on a closed route,
\* whose context is done, or who never announced the toolchain (router.go:319-324).
THEOREM PanicNeedsStrandedCallerAlways == Spec => []PanicNeedsStrandedCaller
<1>1. ASSUME RouterInv
      PROVE  PanicNeedsStrandedCaller
  <2> SUFFICES ASSUME NEW x \in Calls, call[x] = "panic", ctx[Caller[x]] # "done",
                      CallTc[x] \in Items(TcsOf[Caller[x]])
               PROVE  \E k \in DOMAIN att :
                         /\ att[k].party = Caller[x] /\ att[k].pc = "wait"
                         /\ att[k].route \in closed /\ made[att[k].route] = CallTc[x]
    BY Zenon DEF PanicNeedsStrandedCaller
  <2>1. callRt[x] \in closed
    BY <1>1, Zenon DEF RouterInv, CallInv
  <2>2. PICK k \in DOMAIN att :
           /\ att[k].party = Caller[x] /\ made[att[k].route] = CallTc[x]
           /\ att[k].route \in closed \cup {callRt[x]}
    BY <1>1, Zenon DEF RouterInv, CallInv
  <2>3. att[k].pc = "wait"
    BY <1>1, <2>2, RouterAssumptions, Zenon DEF RouterInv, HeldInv
  <2> QED
    BY <2>1, <2>2, <2>3, Zenon
<1> QED
  BY <1>1, RouterInvariant, PTL

-----------------------------------------------------------------------------
(* What GetRoutes lists.  The sets senders and receivers hold UUIDs, not        *)
(* references, so the first of two references of one stream to one route that   *)
(* ends takes the UUID away from the second.  A stream has two only if its      *)
(* toolchains repeat or are updated.                                            *)

Unrepeated(s) == \A j, k \in DOMAIN s : s[j] = s[k] => j = k

\* Streams with UUIDs of their own, each with a list of different toolchains that
\* stays as it is.
PlainStreams ==
  /\ \A p, q \in Parties : UuidOf[p] = UuidOf[q] => p = q
  /\ \A p \in Parties : Unrepeated(TcsOf[p])
  /\ MayUpdate = {}

\* What a stream has yet to attach to it has no reference to.
OnceAt(p) ==
  /\ Unrepeated(queue[p])
  /\ phase[p] = "off" => \A k \in DOMAIN att : att[k].party # p
  /\ \A t \in Items(queue[p]) : ~HasRef(p, t)
OnceInv == \A p \in Parties : OnceAt(p)

SingleInv ==
  \A k, l \in DOMAIN att : att[k].party = att[l].party /\ att[k].route = att[l].route => k = l

AccountInv == OnceInv /\ SingleInv /\ DOMAIN listed = Ids /\ AttachedIsListed

\* A step that adds no reference and queues nothing.
LEMMA OnceKept ==
  ASSUME RoutesInv, Grows, OnceInv, SingleInv, DOMAIN att' = DOMAIN att, queue' = queue,
         \A p \in Parties : phase'[p] = "off" => phase[p] = "off"
  PROVE  OnceInv' /\ SingleInv'
<1>1. \A k \in DOMAIN att : /\ att'[k].party = att[k].party /\ att'[k].route = att[k].route
                            /\ made'[att[k].route] = made[att[k].route]
  BY Zenon DEF Grows, RoutesInv, TypeInv, MadeInv
<1>2. \A p, t : HasRef(p, t)' => HasRef(p, t)
  BY <1>1, Zenon DEF HasRef
<1>3. ASSUME NEW p \in Parties
      PROVE  OnceAt(p)'
  <2>1. OnceAt(p)
    BY Zenon DEF OnceInv
  <2> QED
    BY <1>1, <1>2, <2>1, Zenon DEF OnceAt
<1>4. SingleInv'
  BY <1>1, Zenon DEF SingleInv
<1> QED
  BY <1>3, <1>4, Zenon DEF OnceInv

LEMMA AccountKept ==
  ASSUME RoutesInv, Grows, AccountInv, UNCHANGED <<att, queue, listed>>,
         \A p \in Parties : phase'[p] = "off" => phase[p] = "off"
  PROVE  AccountInv'
<1>1. OnceInv' /\ SingleInv'
  BY OnceKept, Zenon DEF AccountInv
<1> QED
  BY <1>1, Zenon DEF AccountInv, AttachedIsListed

LEMMA AccountAdd ==
  ASSUME PlainStreams, RoutesInv, Grows, AccountInv, NEW p \in Parties, Add(p)
  PROVE  AccountInv'
<1>1. /\ phase \in [Parties -> {"off", "adding", "ready", "updating", "end"}]
      /\ queue \in [Parties -> Seq(Tcs)]
  BY Zenon DEF RoutesInv, TypeInv, TypeOK, WorkOK
<1>2. UNCHANGED <<att, listed, made>>
  BY Zenon DEF Add, refVars, routeVars
<1>3. phase[p] = "off" /\ phase'[p] = "adding" /\ queue'[p] = TcsOf[p]
  BY <1>1, Zenon DEF Add
<1>4. \A q \in Parties : q # p => phase'[q] = phase[q] /\ queue'[q] = queue[q]
  BY <1>1, Zenon DEF Add
<1>5. \A q, t : HasRef(q, t)' <=> HasRef(q, t)
  BY <1>2, Zenon DEF HasRef
<1>6. OnceAt(p)'
  <2>1. \A t : ~HasRef(p, t)
    BY <1>3, Zenon DEF AccountInv, OnceInv, OnceAt, HasRef
  <2> QED
    BY <1>3, <1>5, <2>1, Zenon DEF OnceAt, PlainStreams
<1>7. ASSUME NEW q \in Parties, q # p
      PROVE  OnceAt(q)'
  <2>1. OnceAt(q)
    BY Zenon DEF AccountInv, OnceInv
  <2> QED
    BY <1>2, <1>4, <1>5, <1>7, <2>1, Zenon DEF OnceAt
<1> QED
  BY <1>2, <1>6, <1>7, Zenon DEF AccountInv, OnceInv, SingleInv, AttachedIsListed

\* The rest of a list without its first item.
LEMMA TailUnrepeated ==
  ASSUME NEW s \in Seq(Tcs), s # <<>>, Unrepeated(s)
  PROVE  /\ Unrepeated(Tail(s)) /\ Items(Tail(s)) \subseteq Items(s)
         /\ Head(s) \in Items(s) /\ Head(s) \notin Items(Tail(s))
<1>1. Len(s) \in Nat \ {0} /\ DOMAIN s = 1 .. Len(s) /\ Head(s) = s[1]
  OBVIOUS
<1>2. DOMAIN Tail(s) = 1 .. Len(s) - 1 /\ \A k \in 1 .. Len(s) - 1 : Tail(s)[k] = s[k + 1]
  BY <1>1
<1>3. \A k \in DOMAIN Tail(s) : k \in Nat /\ k + 1 \in DOMAIN s /\ k + 1 # 1 /\ Tail(s)[k] = s[k + 1]
  BY <1>1, <1>2
<1>4. 1 \in DOMAIN s
  BY <1>1
<1>5. Unrepeated(Tail(s))
  BY <1>3 DEF Unrepeated
<1>6. Items(Tail(s)) \subseteq Items(s) /\ Head(s) \in Items(s)
  <2>1. \A k \in DOMAIN Tail(s) : \E j \in DOMAIN s : Tail(s)[k] = s[j]
    BY <1>3, Zenon
  <2>2. Items(Tail(s)) \subseteq Items(s)
    BY <2>1, Zenon DEF Items
  <2> QED
    BY <1>1, <1>4, <2>2, Zenon DEF Items
<1>7. ASSUME Head(s) \in Items(Tail(s))
      PROVE  FALSE
  <2>1. PICK k \in DOMAIN Tail(s) : Tail(s)[k] = Head(s)
    BY <1>7, Zenon DEF Items
  <2>2. k + 1 \in DOMAIN s /\ k + 1 # 1 /\ s[k + 1] = s[1]
    BY <1>1, <1>3, <2>1
  <2> QED
    BY <1>4, <2>2, Zenon DEF Unrepeated
<1> QED
  BY <1>5, <1>6, <1>7

LEMMA AccountAttach ==
  ASSUME RoutesInv, OfferInv, Grows, AccountInv, NEW p \in Parties, Attach(p)
  PROVE  AccountInv'
<1> DEFINE n == Len(att) + 1
<1>1. /\ DOMAIN att' = DOMAIN att \cup {n} /\ n \notin DOMAIN att
      /\ \A l \in DOMAIN att : att'[l] = att[l]
      /\ att'[n].party = p /\ att'[n].route = cur[p] /\ cur[p] \in Ids
  BY Attached, Zenon DEF RoutesInv
<1> HIDE DEF n
<1>2. /\ queue[p] \in Seq(Tcs) /\ queue[p] # <<>> /\ made[cur[p]] = Head(queue[p])
      /\ cur[p] # NoRoute /\ phase[p] # "off"
  BY Zenon DEF Attach, OfferInv, OfferAt, RoutesInv, TypeInv, FlowOK, WorkOK
<1>3. UNCHANGED <<made, phase>> /\ queue' = [queue EXCEPT ![p] = Tail(@)]
  BY Zenon DEF Attach, routeVars
<1>4. queue'[p] = Tail(queue[p]) /\ \A q \in Parties : q # p => queue'[q] = queue[q]
  BY <1>3, Zenon DEF RoutesInv, TypeInv, WorkOK
<1>5. OnceAt(p)
  BY Zenon DEF AccountInv, OnceInv
<1>6. /\ Unrepeated(Tail(queue[p])) /\ Items(Tail(queue[p])) \subseteq Items(queue[p])
      /\ Head(queue[p]) \in Items(queue[p]) /\ Head(queue[p]) \notin Items(Tail(queue[p]))
  BY <1>2, <1>5, TailUnrepeated, Zenon DEF OnceAt
<1>7. \A q, t : HasRef(q, t)' => HasRef(q, t) \/ (q = p /\ t = Head(queue[p]))
  BY <1>1, <1>2, <1>3, Zenon DEF HasRef
<1>8. OnceAt(p)'
  BY <1>2, <1>3, <1>4, <1>5, <1>6, <1>7, Zenon DEF OnceAt
<1>9. ASSUME NEW q \in Parties, q # p
      PROVE  OnceAt(q)'
  <2>1. OnceAt(q)
    BY Zenon DEF AccountInv, OnceInv
  <2> QED
    BY <1>1, <1>3, <1>4, <1>7, <1>9, <2>1, Zenon DEF OnceAt
<1>10. \A k \in DOMAIN att : att[k].party = p => att[k].route # cur[p]
  BY <1>2, <1>5, <1>6, Zenon DEF OnceAt, HasRef
<1>11. SingleInv'
  <2> SUFFICES ASSUME NEW k \in DOMAIN att', NEW l \in DOMAIN att',
                      att'[k].party = att'[l].party, att'[k].route = att'[l].route
               PROVE  k = l
    BY Zenon DEF SingleInv
  <2>1. CASE k \in DOMAIN att /\ l \in DOMAIN att
    BY <1>1, <2>1, Zenon DEF AccountInv, SingleInv
  <2>2. CASE k = n \/ l = n
    BY <1>1, <1>10, <2>2, Zenon
  <2> QED
    BY <1>1, <2>1, <2>2, Zenon
<1>12. /\ DOMAIN listed' = Ids /\ UuidOf[p] \in listed'[cur[p]]
       /\ \A i \in Ids : listed[i] \subseteq listed'[i]
  BY <1>1, Zenon DEF Attach, AccountInv
<1>13. \A k \in DOMAIN att : att[k].route \in Ids
  <2>1. \A k \in DOMAIN att : att[k] \in Refs
    BY DEF RoutesInv, TypeInv, WorkOK
  <2> QED
    BY <2>1, Zenon DEF Refs
<1>14. AttachedIsListed'
  BY <1>1, <1>12, <1>13, Zenon DEF AccountInv, AttachedIsListed
<1> QED
  BY <1>8, <1>9, <1>11, <1>12, <1>14, Zenon DEF AccountInv, OnceInv

\* A goroutine that stops takes away the UUID of its own reference only.
LEMMA AccountRemove ==
  ASSUME PlainStreams, RoutesInv, AccountInv, NEW k \in DOMAIN att, RemoveUuid(k)
  PROVE  AttachedIsListed'
<1>1. /\ DOMAIN att' = DOMAIN att /\ att'[k].pc = "end"
      /\ \A l \in DOMAIN att : l # k => att'[l] = att[l]
  BY Moved, Zenon DEF RemoveUuid, RoutesInv, TypeInv, RefSteps
<1>2. \A l \in DOMAIN att : att[l].route \in Ids /\ att[l].party \in Parties
  <2>1. \A l \in DOMAIN att : att[l] \in Refs
    BY DEF RoutesInv, TypeInv, WorkOK
  <2> QED
    BY <2>1, Zenon DEF Refs
<1> SUFFICES ASSUME NEW l \in DOMAIN att, l # k, att[l].pc \in {"wait", "pass"}
             PROVE  UuidOf[att[l].party] \in listed'[att[l].route]
  BY <1>1 DEF AttachedIsListed
<1>3. UuidOf[att[l].party] \in listed[att[l].route]
  BY Zenon DEF AccountInv, AttachedIsListed
<1>4. \A i \in Ids : listed'[i] = IF i = att[k].route THEN listed[i] \ {UuidOf[att[k].party]} ELSE listed[i]
  BY <1>2, Zenon DEF RemoveUuid, AccountInv
<1>5. att[l].route = att[k].route => UuidOf[att[l].party] # UuidOf[att[k].party]
  BY <1>2, Zenon DEF PlainStreams, AccountInv, SingleInv
<1> QED
  BY <1>2, <1>3, <1>4, <1>5, Zenon

\* Every step keeps GetRoutes' lists and the single references.
LEMMA AccountStep ==
  ASSUME PlainStreams, RoutesInv, OfferInv, AccountInv, Next
  PROVE  AccountInv'
<1>0. Grows /\ phase \in [Parties -> {"off", "adding", "ready", "updating", "end"}]
  BY RoutesStep, Zenon DEF RoutesInv, TypeInv, TypeOK
<1>1. ASSUME NEW p \in Parties, Lookup(p) \/ DropLookup(p) \/ DropCancel(p) \/ End(p)
      PROVE  UNCHANGED <<att, queue, listed, phase>>
  BY <1>1, Zenon DEF Lookup, DropLookup, DropCancel, End, refVars
<1>2. ASSUME NEW p \in Parties, Added(p)
      PROVE  AccountInv'
  <2>1. UNCHANGED <<att, queue, listed>>
    BY <1>2, Zenon DEF Added, refVars
  <2>2. phase'[p] \in {"ready", "end"} /\ \A q \in Parties : q # p => phase'[q] = phase[q]
    BY <1>0, <1>2, Zenon DEF Added
  <2>3. \A q \in Parties : phase'[q] = "off" => phase[q] = "off"
    BY <2>2
  <2> QED
    BY <1>0, <2>1, <2>3, AccountKept, Zenon
<1>3. ASSUME NEW i \in Ids, CloseRoute(i)
      PROVE  UNCHANGED <<att, queue, listed, phase>>
  BY <1>3, Zenon DEF CloseRoute, partyVars, refVars
<1>4. ASSUME NEW x \in Calls, RouteLookup(x) \/ RouteCheck(x) \/ RouteCancelled(x) \/ RoutePanic(x)
      PROVE  UNCHANGED <<att, queue, listed, phase>>
  BY <1>4, Zenon DEF RouteLookup, RouteCheck, RouteCancelled, RoutePanic, partyVars, refVars
<1>5. ASSUME UNCHANGED <<att, queue, listed, phase>>
      PROVE  AccountInv'
  BY <1>0, <1>5, AccountKept, Zenon
<1>6. ASSUME DOMAIN att' = DOMAIN att, UNCHANGED <<queue, phase>>, DOMAIN listed' = Ids, AttachedIsListed'
      PROVE  AccountInv'
  BY <1>0, <1>6, OnceKept, Zenon DEF AccountInv
<1>7. ASSUME DOMAIN att' = DOMAIN att, UNCHANGED <<queue, phase, listed>>,
             \A k \in DOMAIN att : att'[k].pc \in {"wait", "pass"} => att[k].pc \in {"wait", "pass"}
      PROVE  AccountInv'
  <2>1. AttachedIsListed'
    BY <1>0, <1>7, Zenon DEF AccountInv, AttachedIsListed, Grows
  <2> QED
    BY <1>6, <1>7, <2>1, Zenon DEF AccountInv
<1>8. ASSUME NEW k \in DOMAIN att, DecRefCount(k) \/ LoadOther(k) \/ CancelRoute(k)
      PROVE  AccountInv'
  <2>1. PICK q \in {"load", "cancel", "remove"} : Move(k, q)
    BY <1>8, Zenon DEF DecRefCount, LoadOther, CancelRoute
  <2>2. UNCHANGED <<queue, phase, listed>>
    BY <1>8, Zenon DEF DecRefCount, LoadOther, CancelRoute, partyVars
  <2>3. q \in RefSteps /\ q \notin {"wait", "pass"} /\ WorkOK
    BY DEF RefSteps, RoutesInv, TypeInv
  <2>4. /\ DOMAIN att' = DOMAIN att /\ att'[k].pc = q
        /\ \A l \in DOMAIN att : l # k => att'[l] = att[l]
    BY <2>1, <2>3, Moved, Zenon
  <2> QED
    BY <1>7, <2>2, <2>3, <2>4, Zenon
<1>9. ASSUME NEW k \in DOMAIN att, RemoveUuid(k)
      PROVE  AccountInv'
  <2>1. DOMAIN att' = DOMAIN att /\ UNCHANGED <<queue, phase>>
    BY <1>9, Moved, Zenon DEF RemoveUuid, RoutesInv, TypeInv, RefSteps, partyVars
  <2>2. DOMAIN listed' = Ids
    BY <1>9, Zenon DEF RemoveUuid, AccountInv
  <2> QED
    BY <1>6, <1>9, <2>1, <2>2, AccountRemove, Zenon
<1>10. ASSUME NEW k \in DOMAIN att, PassOn(k)
       PROVE  AccountInv'
  <2>1. UNCHANGED <<queue, phase, listed>> /\ att[k].pc = "pass"
    BY <1>10, Zenon DEF PassOn, At, partyVars
  <2>2. DOMAIN att' = DOMAIN att /\ \A l \in DOMAIN att : l # k => att'[l] = att[l]
    BY <1>10, PassMoves, Zenon
  <2> QED
    BY <1>7, <2>1, <2>2, Zenon
<1>11. ASSUME NEW x \in Calls, NEW k \in DOMAIN att, RouteHandOff(x, k)
       PROVE  AccountInv'
  <2>1. UNCHANGED <<queue, phase, listed>> /\ att[k].pc = "wait"
    BY <1>11, Zenon DEF RouteHandOff, At, partyVars
  <2>2. DOMAIN att' = DOMAIN att /\ \A l \in DOMAIN att : l # k => att'[l] = att[l]
    BY <1>11, HandOffMoves
  <2> QED
    BY <1>7, <2>1, <2>2, Zenon
<1>12. \A c \in Cds : ~UpdateSenderToolchains(c)
  BY Zenon DEF UpdateSenderToolchains, PlainStreams
<1>13. \A p \in Parties : Add(p) \/ Attach(p) => AccountInv'
  BY <1>0, AccountAdd, AccountAttach, Zenon
<1> QED
  BY <1>1, <1>2, <1>3, <1>4, <1>5, <1>8, <1>9, <1>10, <1>11, <1>12, <1>13, ZenonT(30)
     DEF Next, PartyStep, RefStep, CallStep

LEMMA AccountInitially == ASSUME Init PROVE AccountInv
<1>1. att = <<>> /\ DOMAIN att = {} /\ DOMAIN listed = Ids /\ \A p \in Parties : queue[p] = <<>>
  BY DEF Init
<1>2. Unrepeated(<<>>) /\ Items(<<>>) = {}
  BY DEF Unrepeated, Items
<1> QED
  BY <1>1, <1>2, Zenon DEF AccountInv, OnceInv, OnceAt, SingleInv, AttachedIsListed

\* The accounting of routes, for any number of streams and toolchains: the reference
\* counts are exact and GetRoutes lists whoever is attached (router.go:57-163, 335),
\* as long as the streams have UUIDs of their own and keep a list of different
\* toolchains.
THEOREM RoutesAccountedAlways == PlainStreams => (Spec => []RoutesAccounted)
<1> SUFFICES ASSUME PlainStreams
             PROVE  Spec => []RoutesAccounted
  OBVIOUS
<1>1. ASSUME RouterInv, AccountInv, [Next]_vars
      PROVE  AccountInv'
  <2>1. CASE Next
    BY <1>1, <2>1, AccountStep, Zenon DEF RouterInv
  <2>2. CASE UNCHANGED vars
    BY <1>1, <2>2, Zenon DEF vars, partyVars, routeVars, refVars, AccountInv, OnceInv, OnceAt, HasRef,
                             SingleInv, AttachedIsListed
  <2> QED
    BY <1>1, <2>1, <2>2, Zenon
<1>2. RouterInv /\ AccountInv => RoutesAccounted
  BY Zenon DEF RouterInv, RoutesInv, TypeInv, AccountInv, RoutesAccounted
<1> QED
  BY <1>1, <1>2, AccountInitially, RouterInvariant, PTL DEF Spec
=============================================================================
