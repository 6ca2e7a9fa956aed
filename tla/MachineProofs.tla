---------------------------- MODULE MachineProofs ---------------------------
(***************************************************************************)
(* What runs on a user's machine, for any number of compilers, requests,   *)
(* versions, runs and processes: the toolchain store gives a request its   *)
(* compiler or a reason, setup leaves a complete installation whose        *)
(* consumerd is the binary installed, and a server that is listed listens. *)
(* Each has an inductive invariant of its own: StoreInv, SetupInv and      *)
(* LaunchInv.                                                              *)
(***************************************************************************)
EXTENDS ToolchainStore, Setup, Launch, FiniteSetTheorems, TLAPS

-----------------------------------------------------------------------------
(* The toolchain store.                                                    *)

Sight == [link : Files, file : Files, v : DiskContents]
Pcs == {"new", "sent"} \cup Handling \cup Errors

\* The types, and which object a request may point to: one of the file it resolved.
StoreShape ==
    /\ changes \in Nat /\ link \in Files /\ replaced \in BOOLEAN
    /\ disk \in [Files -> [v : DiskContents, t : 0 .. changes]]
    /\ tcs \in [Files -> [obj : {0} \cup Objs, mod : 0 .. changes]]
    /\ objs \in [Objs -> [file : Files, v : DiskContents]]
    /\ req \in [Requests -> [pc : Pcs, file : Files, obj : {0} \cup Objs, carries : DiskContents,
                             twice : BOOLEAN, saw : SUBSET Sight]]
    /\ \A f \in Files : tcs[f].obj # 0 => objs[tcs[f].obj].file = f
    /\ \A r \in Requests :
          /\ req[r].pc \in {"new", "find", "contains", "add"} => req[r].obj = 0
          /\ req[r].pc \in {"update", "send"} => req[r].obj # 0 /\ objs[req[r].obj].file = req[r].file

\* What a request knows at each step of applyToolchainToReq.
Saw(r, f, v) == \E x \in req[r].saw : x.file = f /\ x.v = v
AddedByOther(r) ==
    \E q \in Requests \ {r} : req[q].pc \in {"send", "sent", "unavailable"} /\ req[q].file = req[r].file
SeesDisk(r) == req[r].pc \in Handling => OnDisk(disk, link) \subseteq req[r].saw
ContainsInv(r) ==
    req[r].pc = "contains" => /\ \E x \in req[r].saw : x.link = req[r].file
                              /\ tcs[req[r].file].obj # 0 => AddedByOther(r)
UpdateInv(r) ==
    req[r].pc = "update" => /\ tcs[req[r].file].obj = 0 => Unusable(r)
                            /\ ~replaced => tcs[req[r].file].obj \in {0, req[r].obj}
SendInv(r) == req[r].pc = "send" => replaced \/ Saw(r, req[r].file, objs[req[r].obj].v)
EndInv(r) ==
    /\ req[r].pc = "sent" => req[r].twice \/ Saw(r, req[r].file, req[r].carries)
    /\ req[r].pc \in {"invalid", "panic"} => Unusable(r)
    /\ req[r].pc = "exists" => Relinked(r) \/ AddedByOther(r)
RequestInv(r) == SeesDisk(r) /\ ContainsInv(r) /\ UpdateInv(r) /\ SendInv(r) /\ EndInv(r)

\* The modification time of a toolchain in the store stands for its content.
Fresh ==
    ~replaced => \A f \in Files : tcs[f].obj # 0 /\ tcs[f].mod = disk[f].t => objs[tcs[f].obj].v = disk[f].v

StoreInv == StoreShape /\ Fresh /\ \A r \in Requests : RequestInv(r)

Settling == {"send", "sent", "unavailable"}
RequestType == [pc : Pcs, file : Files, obj : {0} \cup Objs, carries : DiskContents,
                twice : BOOLEAN, saw : SUBSET Sight]
PointsWell(r) ==
    /\ req[r].pc \in {"new", "find", "contains", "add"} => req[r].obj = 0
    /\ req[r].pc \in {"update", "send"} => req[r].obj # 0 /\ objs[req[r].obj].file = req[r].file

\* A request that has added a toolchain stays one that has.
LEMMA StillAdded ==
    ASSUME NEW r \in Requests, NEW q \in Requests, AddedByOther(q),
           req'[q].file = req[q].file, \A p \in Requests \ {r} : req'[p] = req[p],
           req[r].pc \in Settling => req'[r].pc \in Settling /\ req'[r].file = req[r].file
    PROVE  AddedByOther(q)'
<1>1. PICK p \in Requests \ {q} : req[p].pc \in Settling /\ req[p].file = req[q].file
  BY Zenon DEF AddedByOther, Settling
<1>2. req'[p].pc \in Settling /\ req'[p].file = req[p].file
  <2>1. CASE p = r  BY <1>1, <2>1, Zenon
  <2>2. CASE p # r  BY <1>1, <2>2, Zenon
  <2> QED  BY <2>1, <2>2, Zenon
<1> QED  BY <1>1, <1>2, Zenon DEF AddedByOther, Settling

\* A step of one request: what it owes the others.
LEMMA RequestStep ==
    ASSUME StoreInv, NEW r \in Requests, NEW w \in RequestType,
           UNCHANGED <<disk, link, changes>>, req' = [req EXCEPT ![r] = w],
           req[r].pc \in Settling => w.pc \in Settling /\ w.file = req[r].file,
           replaced' \in BOOLEAN, tcs' \in [Files -> [obj : {0} \cup Objs, mod : 0 .. changes]],
           objs' \in [Objs -> [file : Files, v : DiskContents]],
           \A f \in Files : tcs'[f].obj # 0 => objs'[tcs'[f].obj].file = f,
           \A q \in Requests \ {r} : (PointsWell(q) /\ ContainsInv(q) /\ UpdateInv(q) /\ SendInv(q))',
           Fresh', PointsWell(r)', RequestInv(r)'
    PROVE  StoreInv'
<1>1. req \in [Requests -> RequestType]  BY Zenon DEF StoreInv, StoreShape, RequestType
<1>2. req'[r] = w /\ \A q \in Requests \ {r} : req'[q] = req[q]  BY <1>1, Zenon
<1>3. StoreShape'
  <2>1. req' \in [Requests -> RequestType]  BY <1>1, Zenon
  <2>2. \A q \in Requests : PointsWell(q)'  BY Zenon
  <2> QED  BY <2>1, <2>2, Zenon DEF StoreInv, StoreShape, RequestType, PointsWell
<1>4. ASSUME NEW q \in Requests PROVE RequestInv(q)'
  <2>1. CASE q = r  BY <2>1, Zenon
  <2>2. CASE q # r
    <3>1. req'[q] = req[q] /\ RequestInv(q)  BY <1>2, <2>2, Zenon DEF StoreInv
    <3>2. AddedByOther(q) => AddedByOther(q)'  BY <3>1, <1>2, StillAdded, Zenon
    <3>3. SeesDisk(q)'  BY <3>1, Zenon DEF RequestInv, SeesDisk, OnDisk
    <3>4. EndInv(q)'  BY <3>1, <3>2, Zenon DEF RequestInv, EndInv, Unusable, Saw, Relinked
    <3> QED  BY <3>3, <3>4, <2>2, Zenon DEF RequestInv
  <2> QED  BY <2>1, <2>2, Zenon
<1> QED  BY <1>3, <1>4, Zenon DEF StoreInv

\* One that leaves the store alone owes them nothing.
LEMMA OneRequest ==
    ASSUME StoreInv, NEW r \in Requests, NEW w \in RequestType,
           UNCHANGED <<disk, link, tcs, objs, replaced, changes>>,
           req' = [req EXCEPT ![r] = w],
           req[r].pc \in Settling => w.pc \in Settling /\ w.file = req[r].file,
           PointsWell(r)', RequestInv(r)'
    PROVE  StoreInv'
<1>1. req \in [Requests -> RequestType]  BY Zenon DEF StoreInv, StoreShape, RequestType
<1>2. req'[r] = w /\ \A q \in Requests \ {r} : req'[q] = req[q]  BY <1>1, Zenon
<1>3. ASSUME NEW q \in Requests \ {r} PROVE (PointsWell(q) /\ ContainsInv(q) /\ UpdateInv(q) /\ SendInv(q))'
  <2>1. req'[q] = req[q] /\ RequestInv(q) /\ PointsWell(q)
    BY <1>2, Zenon DEF StoreInv, StoreShape, PointsWell
  <2>2. AddedByOther(q) => AddedByOther(q)'  BY <2>1, <1>2, StillAdded, Zenon
  <2>3. PointsWell(q)'  BY <2>1, Zenon DEF PointsWell
  <2>4. ContainsInv(q)'  BY <2>1, <2>2, Zenon DEF RequestInv, ContainsInv
  <2>5. UpdateInv(q)'  BY <2>1, Zenon DEF RequestInv, UpdateInv, Unusable
  <2>6. SendInv(q)'  BY <2>1, Zenon DEF RequestInv, SendInv, Saw
  <2> QED  BY <2>3, <2>4, <2>5, <2>6, Zenon
<1>4. Fresh'  BY Zenon DEF StoreInv, Fresh
<1>5. StoreShape  BY Zenon DEF StoreInv
<1>6. /\ replaced' \in BOOLEAN /\ tcs' \in [Files -> [obj : {0} \cup Objs, mod : 0 .. changes]]
      /\ objs' \in [Objs -> [file : Files, v : DiskContents]]
      /\ \A f \in Files : tcs'[f].obj # 0 => objs'[tcs'[f].obj].file = f
  BY <1>5, Zenon DEF StoreShape
<1> QED  BY <1>3, <1>4, <1>6, RequestStep, Zenon

\* What OnDisk holds of a file.
LEMMA DiskHas ==
    ASSUME NEW f \in Files
    PROVE  [link |-> link, file |-> f, v |-> disk[f].v] \in OnDisk(disk, link)
BY Zenon DEF OnDisk

LEMMA DispatchKeeps ==
    ASSUME StoreInv, NEW r \in Requests, DispatchAndWait(r)
    PROVE  StoreInv'
<1> DEFINE pc == IF lookPath THEN "find" ELSE "nocompiler"
           w == [req[r] EXCEPT !.pc = pc, !.saw = OnDisk(disk, link)]
<1>1. req[r] \in RequestType /\ req[r].pc = "new" /\ req \in [Requests -> RequestType]
  BY Zenon DEF StoreInv, StoreShape, RequestType, DispatchAndWait
<1>2. OnDisk(disk, link) \subseteq Sight  BY DEF StoreInv, StoreShape, OnDisk, Sight
<1>3. w \in RequestType /\ w.pc = pc /\ w.saw = OnDisk(disk, link) /\ pc \in {"find", "nocompiler"}
  BY <1>1, <1>2, Zenon DEF RequestType, Pcs, Handling, Errors
<1>4. req' = [req EXCEPT ![r] = w]  BY <1>1, Zenon DEF DispatchAndWait
<1> HIDE DEF w, pc
<1>5. req'[r] = w  BY <1>4, <1>1, Zenon
<1>6. UNCHANGED <<disk, link, tcs, objs, replaced, changes>>  BY Zenon DEF DispatchAndWait
<1>7. PointsWell(r)'  BY <1>1, <1>3, <1>5 DEF PointsWell, StoreInv, StoreShape, w
<1>8. RequestInv(r)'
  BY <1>3, <1>5, <1>6, Zenon DEF RequestInv, SeesDisk, ContainsInv, UpdateInv, SendInv, EndInv, OnDisk
<1> QED  BY <1>1, <1>3, <1>4, <1>6, <1>7, <1>8, OneRequest, Zenon DEF Settling

LEMMA FindKeeps ==
    ASSUME StoreInv, NEW r \in Requests, Find(r)
    PROVE  StoreInv'
<1> DEFINE o == tcs[link].obj
           pc == IF o = 0 THEN "contains" ELSE "update"
           w == [req[r] EXCEPT !.file = link, !.obj = o, !.pc = pc]
<1>1. /\ req[r] \in RequestType /\ req[r].pc = "find" /\ req \in [Requests -> RequestType]
      /\ link \in Files /\ o \in {0} \cup Objs /\ (o # 0 => objs[o].file = link)
  BY Zenon DEF StoreInv, StoreShape, RequestType, Find
<1>2. OnDisk(disk, link) \subseteq req[r].saw
  BY <1>1, Zenon DEF StoreInv, RequestInv, SeesDisk, Handling
<1>3. /\ w \in RequestType /\ w.pc = pc /\ w.saw = req[r].saw /\ w.file = link /\ w.obj = o
      /\ (IF o = 0 THEN pc = "contains" ELSE pc = "update")
  BY <1>1, Zenon DEF RequestType, Pcs, Handling, Errors
<1>4. req' = [req EXCEPT ![r] = w]  BY <1>1, Zenon DEF Find
<1>5. UNCHANGED <<disk, link, tcs, objs, replaced, changes>>  BY Zenon DEF Find
<1>6. tcs[link].obj = o  BY Zenon
<1> HIDE DEF w, pc, o
<1>7. req'[r] = w  BY <1>4, <1>1, Zenon
<1>8. PointsWell(r)'  BY <1>1, <1>3, <1>5, <1>7, Zenon DEF PointsWell
<1>9. \E x \in req[r].saw : x.link = link  BY <1>1, <1>2, DiskHas, Zenon
<1>10. RequestInv(r)'
  <2>1. SeesDisk(r)'  BY <1>2, <1>3, <1>5, <1>7, Zenon DEF SeesDisk, OnDisk
  <2>2. ContainsInv(r)'  BY <1>3, <1>5, <1>6, <1>7, <1>9, Zenon DEF ContainsInv
  <2>3. UpdateInv(r)'  BY <1>3, <1>5, <1>6, <1>7, Zenon DEF UpdateInv
  <2>4. w.pc \in {"contains", "update"}  BY <1>3, Zenon
  <2>5. SendInv(r)' /\ EndInv(r)'  BY <2>4, <1>7, Zenon DEF SendInv, EndInv
  <2> QED  BY <2>1, <2>2, <2>3, <2>5, Zenon DEF RequestInv
<1> QED  BY <1>1, <1>3, <1>4, <1>5, <1>8, <1>10, OneRequest, Zenon DEF Settling

LEMMA StoreContainsKeeps ==
    ASSUME StoreInv, NEW r \in Requests, StoreContains(r)
    PROVE  StoreInv'
<1> DEFINE pc == IF tcs[link].obj # 0 THEN "exists" ELSE "add"
           w == [req[r] EXCEPT !.file = link, !.pc = pc]
<1>1. /\ req[r] \in RequestType /\ req[r].pc = "contains" /\ req \in [Requests -> RequestType]
      /\ link \in Files /\ req[r].obj = 0
  BY Zenon DEF StoreInv, StoreShape, RequestType, StoreContains
<1>2. OnDisk(disk, link) \subseteq req[r].saw /\ ContainsInv(r)
  BY <1>1, Zenon DEF StoreInv, RequestInv, SeesDisk, Handling
<1>3. /\ w \in RequestType /\ w.pc = pc /\ w.saw = req[r].saw /\ w.file = link /\ w.obj = 0
      /\ (IF tcs[link].obj # 0 THEN pc = "exists" ELSE pc = "add")
  BY <1>1, Zenon DEF RequestType, Pcs, Handling, Errors
<1>4. req' = [req EXCEPT ![r] = w]  BY <1>1, Zenon DEF StoreContains, Refused
<1>5. UNCHANGED <<disk, link, tcs, objs, replaced, changes>>  BY Zenon DEF StoreContains
<1> HIDE DEF w, pc
<1>6. req'[r] = w /\ \A p \in Requests \ {r} : req'[p] = req[p]  BY <1>4, <1>1, Zenon
<1>7. PointsWell(r)'  BY <1>3, <1>6, Zenon DEF PointsWell
<1>8. pc = "exists" => Relinked(r)' \/ AddedByOther(r)'
  <2> SUFFICES ASSUME pc = "exists" PROVE Relinked(r)' \/ AddedByOther(r)'  BY Zenon
  <2>1. CASE req[r].file = link
    <3>1. AddedByOther(r)  BY <2>1, <1>1, <1>2, <1>3, Zenon DEF ContainsInv
    <3> QED  BY <3>1, <2>1, <1>1, <1>3, <1>6, StillAdded, Zenon DEF Settling
  <2>2. CASE req[r].file # link
    <3>1. PICK x \in req[r].saw : x.link = req[r].file  BY <1>1, <1>2, Zenon DEF ContainsInv
    <3>2. PICK y \in req[r].saw : y.link = link  BY <1>1, <1>2, DiskHas, Zenon
    <3> QED  BY <3>1, <3>2, <2>2, <1>3, <1>6, Zenon DEF Relinked
  <2> QED  BY <2>1, <2>2, Zenon
<1>9. RequestInv(r)'
  <2>1. SeesDisk(r)'  BY <1>2, <1>3, <1>5, <1>6, Zenon DEF SeesDisk, OnDisk
  <2>2. w.pc \in {"exists", "add"}  BY <1>3, Zenon
  <2>3. ContainsInv(r)' /\ UpdateInv(r)' /\ SendInv(r)'  BY <2>2, <1>6, Zenon DEF ContainsInv, UpdateInv, SendInv
  <2>4. EndInv(r)'  BY <2>2, <1>3, <1>6, <1>8, Zenon DEF EndInv
  <2> QED  BY <2>1, <2>3, <2>4, Zenon DEF RequestInv
<1> QED  BY <1>1, <1>3, <1>4, <1>5, <1>7, <1>9, OneRequest, Zenon DEF Settling

LEMMA SendKeeps ==
    ASSUME StoreInv, NEW r \in Requests, Send(r)
    PROVE  StoreInv'
<1> DEFINE x == objs[req[r].obj]
           w == [req[r] EXCEPT !.pc = "sent", !.obj = 0, !.carries = x.v, !.file = x.file, !.twice = replaced]
<1>1. /\ req[r] \in RequestType /\ req[r].pc = "send" /\ req \in [Requests -> RequestType]
      /\ x \in [file : Files, v : DiskContents] /\ x.file = req[r].file /\ replaced \in BOOLEAN
  BY Zenon DEF StoreInv, StoreShape, RequestType, Send
<1>2. replaced \/ Saw(r, req[r].file, x.v)  BY <1>1, Zenon DEF StoreInv, RequestInv, SendInv
<1>3. /\ w \in RequestType /\ w.pc = "sent" /\ w.saw = req[r].saw /\ w.file = req[r].file
      /\ w.carries = x.v /\ w.twice = replaced
  BY <1>1, Zenon DEF RequestType, Pcs, Handling, Errors
<1>4. req' = [req EXCEPT ![r] = w]  BY <1>1, Zenon DEF Send
<1>5. UNCHANGED <<disk, link, tcs, objs, replaced, changes>>  BY Zenon DEF Send
<1> HIDE DEF w
<1>6. req'[r] = w  BY <1>4, <1>1, Zenon
<1>7. PointsWell(r)'  BY <1>3, <1>6, Zenon DEF PointsWell
<1>8. EndInv(r)'
  <2>1. Saw(r, req[r].file, x.v) => \E y \in w.saw : y.file = w.file /\ y.v = w.carries
    BY <1>3, Zenon DEF Saw
  <2> QED  BY <2>1, <1>2, <1>3, <1>6, Zenon DEF EndInv, Saw
<1>9. RequestInv(r)'
  BY <1>3, <1>6, <1>8, Zenon DEF RequestInv, SeesDisk, Handling, ContainsInv, UpdateInv, SendInv
<1> QED  BY <1>1, <1>3, <1>4, <1>5, <1>7, <1>9, OneRequest, Zenon DEF Settling

\* There is always an object for another toolchain: each file and each other request
\* uses one at most.
LEMMA SomeUnused ==
    ASSUME StoreShape, NEW r \in Requests, req[r].obj = 0
    PROVE  Unused # {}
<1> DEFINE kept == [f \in Files |-> tcs[f].obj]
           held == [q \in Requests \ {r} |-> req[q].obj]
           A == {kept[f] : f \in Files}
           B == {held[q] : q \in Requests \ {r}}
<1> SUFFICES ASSUME Unused = {} PROVE FALSE  BY Zenon
<1>0. \A n \in Nat : IsFiniteSet(1 .. n) /\ Cardinality(1 .. n) = n
  <2> SUFFICES ASSUME NEW n \in Nat PROVE IsFiniteSet(1 .. n) /\ Cardinality(1 .. n) = n
    OBVIOUS
  <2>1. 1 \in Int /\ n \in Int  OBVIOUS
  <2> QED  BY <2>1, FS_Interval
<1>1. NumFiles \in Nat \ {0} /\ NumRequests \in Nat  BY SearchedAssumption, Zenon
<1>2. IsFiniteSet(Files) /\ Cardinality(Files) = NumFiles  BY <1>0, <1>1, Zenon DEF Files
<1>3. IsFiniteSet(Requests) /\ Cardinality(Requests) = NumRequests  BY <1>0, <1>1, Zenon DEF Requests
<1>4. IsFiniteSet(Objs) /\ Cardinality(Objs) = NumFiles + NumRequests
  <2>1. NumFiles + NumRequests \in Nat  BY <1>1
  <2> QED  BY <1>0, <2>1, Zenon DEF Objs
<1>5. IsFiniteSet(Requests \ {r}) /\ Cardinality(Requests \ {r}) = NumRequests - 1
  BY <1>3, FS_RemoveElement, Zenon
<1>6. kept \in Surjection(Files, A) /\ held \in Surjection(Requests \ {r}, B)  BY Zenon DEF Surjection
<1> HIDE DEF A, B, kept, held
<1>7. IsFiniteSet(A) /\ Cardinality(A) <= NumFiles  BY <1>2, <1>6, FS_Surjection, Zenon
<1>8. IsFiniteSet(B) /\ Cardinality(B) <= NumRequests - 1  BY <1>5, <1>6, FS_Surjection
<1>9. IsFiniteSet(A \cup B) /\ Cardinality(A \cup B) <= NumFiles + NumRequests - 1
  <2>1. Cardinality(A) \in Nat /\ Cardinality(B) \in Nat  BY <1>7, <1>8, FS_CardinalityType, Zenon
  <2>2. IsFiniteSet(A \cap B)  BY <1>7, FS_Intersection, Zenon
  <2>3. Cardinality(A \cap B) \in Nat  BY <2>2, FS_CardinalityType, Zenon
  <2>4. /\ IsFiniteSet(A \cup B)
        /\ Cardinality(A \cup B) = Cardinality(A) + Cardinality(B) - Cardinality(A \cap B)
    BY <1>7, <1>8, FS_Union, Zenon
  <2> QED  BY <2>1, <2>3, <2>4, <1>1, <1>7, <1>8
<1>10. Objs \subseteq A \cup B
  <2> SUFFICES ASSUME NEW o \in Objs PROVE o \in A \cup B  BY Zenon
  <2>1. o # 0  BY <1>1 DEF Objs
  <2>2. (\E f \in Files : tcs[f].obj = o) \/ \E q \in Requests : req[q].obj = o
    BY Zenon DEF Unused, InFlight
  <2>3. ASSUME NEW f \in Files, tcs[f].obj = o PROVE o \in A  BY <2>3, Zenon DEF A, kept
  <2>4. ASSUME NEW q \in Requests, req[q].obj = o PROVE o \in B
    <3>1. q \in Requests \ {r}  BY <2>1, <2>4, Zenon
    <3> QED  BY <3>1, <2>4, Zenon DEF B, held
  <2> QED  BY <2>2, <2>3, <2>4, Zenon
<1>11. Cardinality(Objs) <= Cardinality(A \cup B)  BY <1>9, <1>10, FS_Subset, Zenon
<1>12. Cardinality(A \cup B) \in Nat  BY <1>9, FS_CardinalityType, Zenon
<1> QED  BY <1>1, <1>4, <1>9, <1>11, <1>12

LEMMA AddKeeps ==
    ASSUME StoreInv, NEW r \in Requests, Add(r)
    PROVE  StoreInv'
<1> DEFINE f == req[r].file
           o == CHOOSE o \in Unused : TRUE
<1>1. /\ req[r] \in RequestType /\ req[r].pc = "add" /\ req \in [Requests -> RequestType]
      /\ f \in Files /\ req[r].obj = 0 /\ StoreShape
  BY Zenon DEF StoreInv, StoreShape, RequestType, Add
<1>2. OnDisk(disk, link) \subseteq req[r].saw  BY <1>1, Zenon DEF StoreInv, RequestInv, SeesDisk, Handling
<1>3. Saw(r, f, disk[f].v)  BY <1>1, <1>2, DiskHas, Zenon DEF Saw
<1>4. CASE ~Good(f)
  <2> DEFINE w == [req[r] EXCEPT !.pc = "invalid"]
  <2>1. /\ w \in RequestType /\ w.pc = "invalid" /\ w.saw = req[r].saw
    BY <1>1, Zenon DEF RequestType, Pcs, Handling, Errors
  <2>2. req' = [req EXCEPT ![r] = w]  BY <1>1, <1>4, Zenon DEF Add
  <2>3. UNCHANGED <<disk, link, tcs, objs, replaced, changes>>  BY <1>4, Zenon DEF Add
  <2> HIDE DEF w
  <2>4. req'[r] = w  BY <2>2, <1>1, Zenon
  <2>5. PointsWell(r)'  BY <2>1, <2>4, Zenon DEF PointsWell
  <2>6. Unusable(r)'  BY <2>1, <2>4, <1>3, <1>4, Zenon DEF Unusable, Saw, Good
  <2>7. RequestInv(r)'
    BY <2>1, <2>4, <2>6, Zenon DEF RequestInv, SeesDisk, Handling, ContainsInv, UpdateInv, SendInv, EndInv
  <2> QED  BY <1>1, <2>1, <2>2, <2>3, <2>5, <2>7, OneRequest, Zenon DEF Settling
<1>5. CASE Good(f)
  <2> DEFINE w == [req[r] EXCEPT !.obj = o, !.pc = "send"]
             x == [file |-> f, v |-> disk[f].v]
             y == [obj |-> o, mod |-> disk[f].t]
  <2>1. o \in Unused  BY <1>1, SomeUnused, Zenon
  <2>2. o \in Objs /\ o # 0  BY <2>1, SearchedAssumption DEF Unused, Objs
  <2>3. /\ \A g \in Files : tcs[g].obj # o
        /\ \A q \in Requests : req[q].pc \in {"update", "send"} => req[q].obj # o
    BY <2>1, Zenon DEF Unused, InFlight, Handling
  <2>4. /\ w \in RequestType /\ w.pc = "send" /\ w.saw = req[r].saw /\ w.file = f /\ w.obj = o
    BY <1>1, <2>2, Zenon DEF RequestType, Pcs, Handling, Errors
  <2>5. /\ req' = [req EXCEPT ![r] = w] /\ objs' = [objs EXCEPT ![o] = x] /\ tcs' = [tcs EXCEPT ![f] = y]
        /\ replaced' = (replaced \/ \E q \in Requests : Updating(q, f)) /\ UNCHANGED <<disk, link, changes>>
    BY <1>1, <1>5, Zenon DEF Add
  <2>6. /\ x \in [file : Files, v : DiskContents] /\ x.file = f /\ x.v = disk[f].v
        /\ y \in [obj : {0} \cup Objs, mod : 0 .. changes] /\ y.obj = o
    BY <1>1, <2>2, Zenon DEF StoreShape
  <2>7. f \in Files  BY <1>1, Zenon
  <2> HIDE DEF w, x, y, o, f
  <2>8. req'[r] = w /\ \A q \in Requests \ {r} : req'[q] = req[q]  BY <2>5, <1>1, Zenon
  <2>9. /\ objs' \in [Objs -> [file : Files, v : DiskContents]] /\ objs'[o] = x
        /\ \A p \in Objs \ {o} : objs'[p] = objs[p]
    BY <2>2, <2>5, <2>6, <1>1, Zenon DEF StoreShape
  <2>10. /\ tcs' \in [Files -> [obj : {0} \cup Objs, mod : 0 .. changes]] /\ tcs'[f] = y
         /\ \A g \in Files \ {f} : tcs'[g] = tcs[g]
    BY <2>5, <2>6, <2>7, <1>1, Zenon DEF StoreShape
  <2>11. replaced' \in BOOLEAN  BY <2>5, Zenon
  <2>12. \A g \in Files \ {f} : tcs[g].obj # 0 => objs'[tcs[g].obj] = objs[tcs[g].obj]
    <3>1. \A g \in Files : tcs[g].obj \in {0} \cup Objs  BY <1>1, Zenon DEF StoreShape
    <3> QED  BY <3>1, <2>3, <2>9, Zenon
  <2>13. \A g \in Files : tcs'[g].obj # 0 => objs'[tcs'[g].obj].file = g
    <3>1. tcs'[f].obj = o /\ objs'[o].file = f  BY <2>6, <2>9, <2>10, Zenon
    <3>2. ASSUME NEW g \in Files \ {f}, tcs'[g].obj # 0 PROVE objs'[tcs'[g].obj].file = g
      <4>1. tcs[g].obj # 0 => objs[tcs[g].obj].file = g  BY <1>1, Zenon DEF StoreShape
      <4>2. tcs'[g] = tcs[g]  BY <2>10, Zenon
      <4> QED  BY <4>1, <4>2, <3>2, <2>12, Zenon
    <3> QED  BY <3>1, <3>2, Zenon
  <2>14. Fresh'
    <3>1. tcs'[f].obj = o /\ objs'[o].v = disk'[f].v  BY <2>5, <2>6, <2>9, <2>10, Zenon
    <3>2. ASSUME ~replaced', NEW g \in Files \ {f}, tcs'[g].obj # 0, tcs'[g].mod = disk'[g].t
          PROVE  objs'[tcs'[g].obj].v = disk'[g].v
      <4>1. ~replaced /\ tcs'[g] = tcs[g] /\ disk' = disk  BY <3>2, <2>5, <2>10, Zenon
      <4> QED  BY <4>1, <3>2, <2>12, Zenon DEF StoreInv, Fresh
    <3> QED  BY <3>1, <3>2, Zenon DEF Fresh
  <2>15. ASSUME NEW q \in Requests \ {r} PROVE (PointsWell(q) /\ ContainsInv(q) /\ UpdateInv(q) /\ SendInv(q))'
    <3>1. req'[q] = req[q] /\ RequestInv(q) /\ PointsWell(q) /\ req[q].obj \in {0} \cup Objs
      BY <2>8, <1>1, Zenon DEF StoreInv, StoreShape, PointsWell
    <3>2. req[q].pc \in {"update", "send"} => objs'[req[q].obj] = objs[req[q].obj]
      <4> SUFFICES ASSUME req[q].pc \in {"update", "send"} PROVE objs'[req[q].obj] = objs[req[q].obj]  BY Zenon
      <4>1. req[q].obj \in Objs \ {o}  BY <3>1, <2>3, Zenon DEF PointsWell
      <4> QED  BY <4>1, <2>9, Zenon
    <3>3. PointsWell(q)'  BY <3>1, <3>2, Zenon DEF PointsWell
    <3>4. req[q].file \in Files  BY <1>1, Zenon DEF StoreShape
    <3>5. ContainsInv(q)'
      <4>1. CASE req[q].file = f
        <5>1. AddedByOther(q)'  BY <4>1, <3>1, <2>4, <2>8, Zenon DEF AddedByOther
        <5> QED  BY <5>1, <3>1, Zenon DEF RequestInv, ContainsInv
      <4>2. CASE req[q].file # f
        <5>1. AddedByOther(q) => AddedByOther(q)'
          BY <1>1, <3>1, <2>8, StillAdded, Zenon DEF Settling
        <5> QED  BY <5>1, <4>2, <3>1, <3>4, <2>10, Zenon DEF RequestInv, ContainsInv
      <4> QED  BY <4>1, <4>2, Zenon
    <3>6. UpdateInv(q)'
      <4> SUFFICES ASSUME req[q].pc = "update" PROVE UpdateInv(q)'  BY <3>1, Zenon DEF UpdateInv
      <4>1. CASE req[q].file = f
        <5>1. Updating(q, f)  BY <4>1, <3>1, Zenon DEF Updating, PointsWell
        <5> QED  BY <5>1, <4>1, <3>1, <2>2, <2>5, <2>6, <2>10, Zenon DEF UpdateInv
      <4>2. CASE req[q].file # f
        BY <4>2, <3>1, <3>4, <2>5, <2>10, Zenon DEF RequestInv, UpdateInv, Unusable
      <4> QED  BY <4>1, <4>2, Zenon
    <3>7. SendInv(q)'  BY <3>1, <3>2, <2>5, Zenon DEF RequestInv, SendInv, Saw
    <3> QED  BY <3>3, <3>5, <3>6, <3>7, Zenon
  <2>16. PointsWell(r)'  BY <2>2, <2>4, <2>6, <2>8, <2>9, Zenon DEF PointsWell
  <2>17. RequestInv(r)'
    <3>1. SeesDisk(r)'  BY <1>2, <2>4, <2>5, <2>8, Zenon DEF SeesDisk, OnDisk
    <3>2. SendInv(r)'
      <4>1. \E z \in req[r].saw : z.file = f /\ z.v = disk[f].v  BY <1>3, Zenon DEF Saw
      <4> QED  BY <4>1, <2>4, <2>6, <2>8, <2>9, Zenon DEF SendInv, Saw
    <3>3. ContainsInv(r)' /\ UpdateInv(r)' /\ EndInv(r)'
      BY <2>4, <2>8, Zenon DEF ContainsInv, UpdateInv, EndInv
    <3> QED  BY <3>1, <3>2, <3>3, Zenon DEF RequestInv
  <2>18. req[r].pc \notin Settling  BY <1>1, Zenon DEF Settling
  <2> QED
    BY <2>4, <2>5, <2>9, <2>10, <2>11, <2>13, <2>14, <2>15, <2>16, <2>17, <2>18, RequestStep, Zenon
<1> QED  BY <1>4, <1>5, Zenon

\* UpdateIfNeeded: the toolchain is gone, or is removed now, or filled anew, or as it was.
LEMMA UpdateKeeps ==
    ASSUME StoreInv, NEW r \in Requests, UpdateIfNeeded(r)
    PROVE  StoreInv'
<1> DEFINE o == req[r].obj
           f == req[r].file
           ends(pc) == [req[r] EXCEPT !.pc = pc]
<1>1. /\ req[r] \in RequestType /\ req[r].pc = "update" /\ req \in [Requests -> RequestType]
      /\ f \in Files /\ o \in Objs /\ o # 0 /\ objs[o].file = f /\ StoreShape /\ UpdateInv(r)
  BY Zenon DEF StoreInv, StoreShape, RequestType, UpdateIfNeeded, RequestInv
<1>2. \A q \in Requests : req[q].pc \in {"update", "send"} => Saw(q, f, disk[f].v)
  <2> SUFFICES ASSUME NEW q \in Requests, req[q].pc \in {"update", "send"} PROVE Saw(q, f, disk[f].v)
    BY Zenon
  <2>1. OnDisk(disk, link) \subseteq req[q].saw  BY Zenon DEF StoreInv, RequestInv, SeesDisk, Handling
  <2> QED  BY <2>1, <1>1, DiskHas, Zenon DEF Saw
<1>3. ASSUME NEW pc \in {"send", "panic"}
      PROVE  /\ ends(pc) \in RequestType /\ ends(pc).pc = pc /\ ends(pc).saw = req[r].saw
             /\ ends(pc).file = f /\ ends(pc).obj = o
  BY <1>1, Zenon DEF RequestType, Pcs, Handling, Errors
<1>4. req[r].pc \notin Settling  BY <1>1, Zenon DEF Settling
<1>5. ASSUME NEW pc \in {"send", "panic"}, req' = [req EXCEPT ![r] = ends(pc)], UNCHANGED <<disk, link>>,
             objs'[o].file = f, pc = "panic" => Unusable(r),
             pc = "send" => replaced' \/ Saw(r, f, objs'[o].v)
      PROVE  PointsWell(r)' /\ RequestInv(r)'
  <2>1. /\ req'[r].pc = pc /\ req'[r].saw = req[r].saw /\ req'[r].file = f /\ req'[r].obj = o
    BY <1>1, <1>3, <1>5, Zenon
  <2>2. PointsWell(r)'  BY <2>1, <1>1, <1>5, Zenon DEF PointsWell
  <2>3. SeesDisk(r)'  BY <1>1, <1>5, <2>1, Zenon DEF StoreInv, RequestInv, SeesDisk, OnDisk, Handling
  <2>4. ContainsInv(r)' /\ UpdateInv(r)'  BY <2>1, Zenon DEF ContainsInv, UpdateInv
  <2>5. SendInv(r)'
    <3> SUFFICES ASSUME pc = "send", ~replaced' PROVE SendInv(r)'  BY <2>1, Zenon DEF SendInv
    <3>1. \E x \in req'[r].saw : x.file = f /\ x.v = objs'[o].v  BY <1>5, <2>1, Zenon DEF Saw
    <3> QED  BY <3>1, <2>1, Zenon DEF SendInv, Saw
  <2>6. EndInv(r)'  BY <2>1, <1>5, Zenon DEF EndInv, Unusable
  <2> QED  BY <2>2, <2>3, <2>4, <2>5, <2>6, Zenon DEF RequestInv
<1>6. UNCHANGED <<disk, link, replaced, changes>>  BY Zenon DEF UpdateIfNeeded
<1>7. disk[f].v \notin FileVersions => Unusable(r)  BY <1>1, <1>2, Zenon DEF Unusable, Saw
<1>8. /\ tcs \in [Files -> [obj : {0} \cup Objs, mod : 0 .. changes]]
      /\ objs \in [Objs -> [file : Files, v : DiskContents]] /\ replaced' \in BOOLEAN
      /\ disk[f] \in [v : DiskContents, t : 0 .. changes]
  BY <1>1, <1>6, Zenon DEF StoreShape
<1>9. ASSUME ~replaced, tcs[f].obj # 0 PROVE tcs[f].obj = o  BY <1>1, <1>9, Zenon DEF UpdateInv
<1>10. ASSUME NEW q \in Requests \ {r}
       PROVE  RequestInv(q) /\ PointsWell(q) /\ req[q].file \in Files /\ req[q].obj \in {0} \cup Objs
  BY <1>1, Zenon DEF StoreInv, StoreShape, PointsWell, RequestType
<1>11. CASE tcs[f].obj = 0 /\ req' = [req EXCEPT ![r].pc = "panic"] /\ UNCHANGED <<tcs, objs>>
  <2>1. req' = [req EXCEPT ![r] = ends("panic")]  BY <1>1, <1>11, Zenon
  <2>2. Unusable(r)  BY <1>1, <1>11, Zenon DEF UpdateInv
  <2> HIDE DEF ends
  <2>3. PointsWell(r)' /\ RequestInv(r)'
    <3>1. objs'[o].file = f  BY <1>1, <1>11, Zenon
    <3> QED  BY <3>1, <2>1, <2>2, <1>5, <1>6, Zenon
  <2>4. ends("panic") \in RequestType  BY <1>3, Zenon
  <2> QED  BY <2>1, <2>3, <2>4, <1>4, <1>6, <1>11, OneRequest, Zenon
<1>12. CASE /\ tcs[f].obj # 0 /\ NoLonger(f) /\ tcs' = [tcs EXCEPT ![f] = Removed]
            /\ req' = [req EXCEPT ![r].pc = "panic"] /\ UNCHANGED objs
  <2>1. req' = [req EXCEPT ![r] = ends("panic")]  BY <1>1, <1>12, Zenon
  <2>2. disk[f].v \notin FileVersions  BY <1>12, SearchedAssumption, Zenon DEF NoLonger, Missing
  <2>3. /\ tcs' \in [Files -> [obj : {0} \cup Objs, mod : 0 .. changes]] /\ tcs'[f].obj = 0
        /\ \A g \in Files \ {f} : tcs'[g] = tcs[g]
    BY <1>1, <1>8, <1>12 DEF Removed, StoreShape
  <2> HIDE DEF ends
  <2>4. PointsWell(r)' /\ RequestInv(r)'
    <3>1. objs'[o].file = f  BY <1>1, <1>12, Zenon
    <3> QED  BY <3>1, <2>1, <2>2, <1>5, <1>6, <1>7, Zenon
  <2>5. ends("panic") \in RequestType  BY <1>3, Zenon
  <2>6. \A g \in Files : tcs'[g].obj # 0 => tcs'[g] = tcs[g]  BY <2>3, Zenon
  <2>7. \A g \in Files : tcs'[g].obj # 0 => objs'[tcs'[g].obj].file = g
    <3>1. \A g \in Files : tcs[g].obj # 0 => objs[tcs[g].obj].file = g  BY <1>1, Zenon DEF StoreShape
    <3> QED  BY <3>1, <2>6, <1>12, Zenon
  <2>8. Fresh'  BY <2>6, <1>6, <1>12, Zenon DEF StoreInv, Fresh
  <2>9. req'[r].pc = "panic" /\ \A q \in Requests \ {r} : req'[q] = req[q]  BY <1>1, <1>12
  <2>10. ASSUME NEW q \in Requests \ {r} PROVE (PointsWell(q) /\ ContainsInv(q) /\ UpdateInv(q) /\ SendInv(q))'
    <3>1. req'[q] = req[q] /\ RequestInv(q) /\ PointsWell(q) /\ req[q].file \in Files  BY <2>9, <1>10, Zenon
    <3>2. PointsWell(q)'  BY <3>1, <1>12, Zenon DEF PointsWell
    <3>3. ContainsInv(q)'
      <4>1. AddedByOther(q) => AddedByOther(q)'  BY <3>1, <2>9, <1>4, StillAdded, Zenon
      <4> QED  BY <4>1, <3>1, <2>6, Zenon DEF RequestInv, ContainsInv
    <3>4. UpdateInv(q)'
      <4> SUFFICES ASSUME req[q].pc = "update" PROVE UpdateInv(q)'  BY <3>1, Zenon DEF UpdateInv
      <4>1. CASE req[q].file = f
        <5>1. Unusable(q)  BY <2>2, <1>2, Zenon DEF Unusable, Saw
        <5> QED  BY <5>1, <4>1, <3>1, <2>3, Zenon DEF UpdateInv, Unusable
      <4>2. CASE req[q].file # f
        <5>1. tcs'[req[q].file] = tcs[req[q].file]  BY <4>2, <3>1, <2>3, Zenon
        <5> QED  BY <5>1, <3>1, <1>6, Zenon DEF RequestInv, UpdateInv, Unusable
      <4> QED  BY <4>1, <4>2, Zenon
    <3>5. SendInv(q)'  BY <3>1, <1>6, <1>12, Zenon DEF RequestInv, SendInv, Saw
    <3> QED  BY <3>2, <3>3, <3>4, <3>5, Zenon
  <2>11. objs' \in [Objs -> [file : Files, v : DiskContents]]  BY <1>8, <1>12, Zenon
  <2> QED
    BY <2>1, <2>3, <2>4, <2>5, <2>7, <2>8, <2>10, <2>11, <1>4, <1>6, <1>8, RequestStep, Zenon
<1>13. CASE /\ tcs[f].obj # 0 /\ ~NoLonger(f) /\ ~SameFile(tcs[f], f) /\ Refilled(o, f)
            /\ tcs' = [tcs EXCEPT ![f].mod = IF Good(f) THEN disk[f].t ELSE @]
            /\ req' = [req EXCEPT ![r].pc = IF Good(f) THEN "send" ELSE "panic"]
  <2> DEFINE pc == IF Good(f) THEN "send" ELSE "panic"
  <2>1. req' = [req EXCEPT ![r] = ends(pc)] /\ pc \in {"send", "panic"}  BY <1>1, <1>13, Zenon
  <2>2. pc = "panic" => disk[f].v \notin FileVersions  BY Zenon DEF Good
  <2>3. /\ tcs' \in [Files -> [obj : {0} \cup Objs, mod : 0 .. changes]] /\ tcs'[f].obj = tcs[f].obj
        /\ \A g \in Files \ {f} : tcs'[g] = tcs[g]
    BY <1>1, <1>8, <1>13
  <2>4. /\ objs' \in [Objs -> [file : Files, v : DiskContents]] /\ objs'[o].v = disk[f].v
        /\ objs'[o].file = f /\ \A p \in Objs \ {o} : objs'[p] = objs[p]
    BY <1>1, <1>8, <1>13, Zenon DEF Refilled
  <2>5. req'[r] = ends(pc) /\ \A q \in Requests \ {r} : req'[q] = req[q]  BY <1>1, <2>1, Zenon
  <2> HIDE DEF ends, pc
  <2>6. PointsWell(r)' /\ RequestInv(r)'  BY <2>1, <2>2, <2>4, <1>1, <1>2, <1>5, <1>6, <1>7, Zenon
  <2>7. ends(pc) \in RequestType  BY <2>1, <1>3, Zenon
  <2>8. \A p \in Objs : objs'[p].file = objs[p].file  BY <2>4, <1>1, Zenon
  <2>9. \A g \in Files : tcs'[g].obj = tcs[g].obj  BY <2>3, Zenon
  <2>10. \A g \in Files : tcs'[g].obj # 0 => objs'[tcs'[g].obj].file = g
    <3> SUFFICES ASSUME NEW g \in Files, tcs[g].obj # 0 PROVE objs'[tcs[g].obj].file = g  BY <2>9, Zenon
    <3>1. tcs[g].obj \in Objs /\ objs[tcs[g].obj].file = g
      <4>1. tcs[g].obj # 0 => objs[tcs[g].obj].file = g  BY <1>1, Zenon DEF StoreShape
      <4>2. tcs[g].obj \in {0} \cup Objs  BY <1>8, Zenon
      <4> QED  BY <4>1, <4>2, Zenon
    <3> QED  BY <3>1, <2>8, Zenon
  <2>11. Fresh'
    <3> SUFFICES ASSUME ~replaced', NEW g \in Files, tcs'[g].obj # 0, tcs'[g].mod = disk'[g].t
                 PROVE  objs'[tcs'[g].obj].v = disk'[g].v
      BY Zenon DEF Fresh
    <3>1. ~replaced /\ disk' = disk  BY <1>6, Zenon
    <3>2. CASE g = f  BY <3>1, <3>2, <2>4, <2>9, <1>9, Zenon
    <3>3. CASE g # f
      <4>1. tcs'[g] = tcs[g] /\ tcs[g].obj \in Objs /\ objs[tcs[g].obj].file = g
        BY <3>3, <2>3, <1>1, <1>8, Zenon DEF StoreShape
      <4>2. objs'[tcs[g].obj] = objs[tcs[g].obj]  BY <4>1, <3>3, <2>4, <1>1, Zenon
      <4> QED  BY <4>1, <4>2, <3>1, Zenon DEF StoreInv, Fresh
    <3> QED  BY <3>2, <3>3, Zenon
  <2>12. ASSUME NEW q \in Requests \ {r} PROVE (PointsWell(q) /\ ContainsInv(q) /\ UpdateInv(q) /\ SendInv(q))'
    <3>1. req'[q] = req[q] /\ RequestInv(q) /\ PointsWell(q) /\ req[q].file \in Files /\ req[q].obj \in {0} \cup Objs
      BY <2>5, <1>10, Zenon
    <3>2. PointsWell(q)'  BY <3>1, <2>8, Zenon DEF PointsWell
    <3>3. ContainsInv(q)'
      <4>1. AddedByOther(q) => AddedByOther(q)'  BY <3>1, <2>5, <1>4, StillAdded, Zenon
      <4> QED  BY <4>1, <3>1, <2>9, Zenon DEF RequestInv, ContainsInv
    <3>4. UpdateInv(q)'  BY <3>1, <2>9, <1>6, Zenon DEF RequestInv, UpdateInv, Unusable
    <3>5. SendInv(q)'
      <4> SUFFICES ASSUME req[q].pc = "send", ~replaced PROVE SendInv(q)'  BY <3>1, <1>6, Zenon DEF SendInv
      <4>1. Saw(q, req[q].file, objs'[req[q].obj].v)
        <5>1. CASE req[q].obj = o  BY <5>1, <3>1, <2>4, <1>1, <1>2, Zenon DEF PointsWell
        <5>2. CASE req[q].obj # o
          <6>1. req[q].obj \in Objs \ {o}  BY <5>2, <3>1, Zenon DEF PointsWell
          <6>2. objs'[req[q].obj] = objs[req[q].obj]  BY <6>1, <2>4, Zenon
          <6> QED  BY <6>2, <3>1, Zenon DEF RequestInv, SendInv
        <5> QED  BY <5>1, <5>2, Zenon
      <4> QED  BY <4>1, <3>1, Zenon DEF SendInv, Saw
    <3> QED  BY <3>2, <3>3, <3>4, <3>5, Zenon
  <2> QED
    BY <2>1, <2>3, <2>4, <2>6, <2>7, <2>10, <2>11, <2>12, <1>4, <1>6, <1>8, RequestStep, Zenon
<1>14. CASE /\ tcs[f].obj # 0 /\ SameFile(tcs[f], f)
            /\ req' = [req EXCEPT ![r].pc = "send"] /\ UNCHANGED <<tcs, objs>>
  <2>1. req' = [req EXCEPT ![r] = ends("send")]  BY <1>1, <1>14, Zenon
  <2>2. replaced \/ objs[o].v = disk[f].v  BY <1>1, <1>9, <1>14, Zenon DEF StoreInv, Fresh, SameFile
  <2>3. replaced' \/ Saw(r, f, objs'[o].v)  BY <2>2, <1>1, <1>2, <1>6, <1>14, Zenon
  <2> HIDE DEF ends
  <2>4. PointsWell(r)' /\ RequestInv(r)'
    <3>1. objs'[o].file = f  BY <1>1, <1>14, Zenon
    <3> QED  BY <3>1, <2>1, <2>3, <1>5, <1>6, Zenon
  <2>5. ends("send") \in RequestType  BY <1>3, Zenon
  <2> QED  BY <2>1, <2>4, <2>5, <1>4, <1>6, <1>14, OneRequest, Zenon
<1> QED  BY <1>1, <1>11, <1>12, <1>13, <1>14, Zenon DEF UpdateIfNeeded

\* A change on disk: every request in flight sees it, and its time is a new one.
LEMMA ChangeKeeps ==
    ASSUME StoreInv, Change
    PROVE  StoreInv'
<1>1. /\ changes \in Nat /\ changes' = changes + 1 /\ StoreShape
      /\ req \in [Requests -> RequestType] /\ UNCHANGED <<tcs, objs, replaced>>
  BY Zenon DEF StoreInv, StoreShape, RequestType, Change
<1>2. /\ link' \in Files /\ disk' \in [Files -> [v : DiskContents, t : 0 .. changes']]
      /\ \A f \in Files : disk'[f] # disk[f] => disk'[f].t = changes'
  <2>1. CASE UNCHANGED disk /\ link' \in Files  BY <2>1, <1>1 DEF StoreShape
  <2>2. CASE UNCHANGED link /\ \E f \in Files : \E v \in DiskContents \ {disk[f].v} :
                                  disk' = [disk EXCEPT ![f] = [v |-> v, t |-> changes']]
    <3>1. PICK f \in Files, v \in DiskContents : disk' = [disk EXCEPT ![f] = [v |-> v, t |-> changes']]
      BY <2>2, Zenon
    <3>2. disk \in [Files -> [v : DiskContents, t : 0 .. changes']]  BY <1>1 DEF StoreShape
    <3>3. [v |-> v, t |-> changes'] \in [v : DiskContents, t : 0 .. changes']  BY <1>1
    <3> QED  BY <3>1, <3>2, <3>3, <2>2, <1>1, Zenon DEF StoreShape
  <2> QED  BY <2>1, <2>2, Zenon DEF Change
<1> DEFINE d == OnDisk(disk', link')
<1>3. d \subseteq Sight  BY <1>2 DEF OnDisk, Sight
<1>4. req' = [r \in Requests |-> IF r \in InFlight THEN [req[r] EXCEPT !.saw = @ \cup d] ELSE req[r]]
  BY Zenon DEF Change
<1>5. OnDisk(disk, link)' = d  BY Zenon DEF OnDisk
<1> HIDE DEF d
<1>6. ASSUME NEW r \in Requests
      PROVE  /\ req'[r] \in RequestType /\ req'[r].pc = req[r].pc /\ req'[r].file = req[r].file
             /\ req'[r].obj = req[r].obj /\ req'[r].carries = req[r].carries /\ req'[r].twice = req[r].twice
             /\ req[r].saw \subseteq req'[r].saw /\ (req[r].pc \in Handling => d \subseteq req'[r].saw)
  <2>1. req[r] \in RequestType  BY <1>1, Zenon
  <2>2. CASE r \in InFlight
    <3>1. req'[r] = [req[r] EXCEPT !.saw = @ \cup d]  BY <1>4, <2>2, Zenon
    <3> QED  BY <3>1, <2>1, <1>3, Zenon DEF RequestType
  <2>3. CASE r \notin InFlight
    <3>1. req'[r] = req[r] /\ req[r].pc \notin Handling  BY <1>4, <2>3, Zenon DEF InFlight
    <3> QED  BY <3>1, <2>1, Zenon
  <2> QED  BY <2>2, <2>3, Zenon
<1>7. StoreShape'
  <2>1. req' \in [Requests -> RequestType]  BY <1>4, <1>6, Zenon
  <2>2. tcs' \in [Files -> [obj : {0} \cup Objs, mod : 0 .. changes']]  BY <1>1 DEF StoreShape
  <2>3. \A r \in Requests : PointsWell(r)'
    <3> SUFFICES ASSUME NEW r \in Requests PROVE PointsWell(r)'  BY Zenon
    <3>1. PointsWell(r)  BY <1>1, Zenon DEF StoreShape, PointsWell
    <3> QED  BY <3>1, <1>1, <1>6, Zenon DEF PointsWell
  <2>4. changes' \in Nat  BY <1>1
  <2> QED  BY <2>1, <2>2, <2>3, <2>4, <1>1, <1>2, Zenon DEF StoreShape, RequestType, PointsWell
<1>8. Fresh'
  <2> SUFFICES ASSUME ~replaced', NEW f \in Files, tcs'[f].obj # 0, tcs'[f].mod = disk'[f].t
               PROVE  objs'[tcs'[f].obj].v = disk'[f].v
    BY Zenon DEF Fresh
  <2>1. tcs[f].mod \in 0 .. changes /\ tcs[f].mod = disk'[f].t  BY <1>1, Zenon DEF StoreShape
  <2>2. disk'[f] = disk[f]  BY <2>1, <1>1, <1>2
  <2> QED  BY <2>2, <1>1, Zenon DEF StoreInv, Fresh
<1>9. ASSUME NEW r \in Requests PROVE RequestInv(r)'
  <2>1. RequestInv(r)  BY Zenon DEF StoreInv
  <2>2. AddedByOther(r) => AddedByOther(r)'  BY <1>6, Zenon DEF AddedByOther
  <2>3. Unusable(r) => Unusable(r)'  BY <1>6, Zenon DEF Unusable
  <2>4. Relinked(r) => Relinked(r)'  BY <1>6, Zenon DEF Relinked
  <2>5. ASSUME NEW f, NEW v, Saw(r, f, v) PROVE \E x \in req'[r].saw : x.file = f /\ x.v = v
    BY <2>5, <1>6, Zenon DEF Saw
  <2>6. SeesDisk(r)'  BY <1>5, <1>6, Zenon DEF SeesDisk
  <2>7. ContainsInv(r)'
    <3>1. (\E x \in req[r].saw : x.link = req[r].file) => \E x \in req'[r].saw : x.link = req[r].file
      BY <1>6, Zenon
    <3> QED  BY <3>1, <2>1, <2>2, <1>1, <1>6, Zenon DEF RequestInv, ContainsInv
  <2>8. UpdateInv(r)'  BY <2>1, <2>3, <1>1, <1>6, Zenon DEF RequestInv, UpdateInv
  <2>9. SendInv(r)'  BY <2>1, <2>5, <1>1, <1>6, Zenon DEF RequestInv, SendInv, Saw
  <2>10. EndInv(r)'
    <3>1. req[r].pc = "sent" => req[r].twice \/ \E x \in req'[r].saw : x.file = req[r].file /\ x.v = req[r].carries
      <4>1. req[r].pc = "sent" => req[r].twice \/ Saw(r, req[r].file, req[r].carries)
        BY <2>1, Zenon DEF RequestInv, EndInv
      <4> QED  BY <4>1, <1>6, Zenon DEF Saw
    <3> QED  BY <3>1, <2>1, <2>2, <2>3, <2>4, <1>6, Zenon DEF RequestInv, EndInv, Saw
  <2> QED  BY <2>6, <2>7, <2>8, <2>9, <2>10, Zenon DEF RequestInv
<1> QED  BY <1>7, <1>8, <1>9, Zenon DEF StoreInv

\* What NewConsumerdServer finds: each toolchain is as its file is.
LEMMA FilledFresh ==
    ASSUME disk \in [Files -> [v : DiskContents, t : 0 .. changes]], changes \in Nat
    PROVE  /\ Filled \in [Files -> [obj : {0} \cup Objs, mod : 0 .. changes]]
           /\ FreshObjs \in [Objs -> [file : Files, v : DiskContents]]
           /\ \A f \in Files : Filled[f].obj # 0 => /\ FreshObjs[Filled[f].obj].file = f
                                                    /\ FreshObjs[Filled[f].obj].v = disk[f].v
<1>1. NumFiles \in Nat \ {0} /\ NumRequests \in Nat  BY SearchedAssumption, Zenon
<1>2. Files \subseteq Objs /\ 1 \in Files /\ 0 \notin Files  BY <1>1 DEF Files, Objs
<1>3. Missing \in DiskContents  BY Zenon DEF DiskContents
<1>4. ASSUME NEW f \in Files
      PROVE  /\ Filled[f] \in [obj : {0} \cup Objs, mod : 0 .. changes]
             /\ (Filled[f].obj # 0 => Filled[f].obj = f /\ f \in Searched /\ Good(f))
  <2>1. disk[f].t \in 0 .. changes  BY Zenon
  <2> QED  BY <2>1, <1>2 DEF Filled, Removed
<1>5. Filled \in [Files -> [obj : {0} \cup Objs, mod : 0 .. changes]]  BY <1>4, Zenon DEF Filled
<1>6. FreshObjs \in [Objs -> [file : Files, v : DiskContents]]  BY <1>2, <1>3, Zenon DEF FreshObjs
<1>7. ASSUME NEW f \in Files, Filled[f].obj # 0
      PROVE  FreshObjs[Filled[f].obj].file = f /\ FreshObjs[Filled[f].obj].v = disk[f].v
  BY <1>2, <1>4, <1>7, Zenon DEF FreshObjs
<1> QED  BY <1>5, <1>6, <1>7, Zenon

LEMMA RespawnKeeps ==
    ASSUME StoreInv, Respawn
    PROVE  StoreInv'
<1>1. /\ StoreShape /\ UNCHANGED <<disk, link, changes>> /\ req \in [Requests -> RequestType]
      /\ tcs' = Filled /\ objs' = FreshObjs /\ replaced' = FALSE
      /\ req' = [r \in Requests |-> IF r \in InFlight THEN [req[r] EXCEPT !.pc = "unavailable", !.obj = 0] ELSE req[r]]
  BY Zenon DEF StoreInv, StoreShape, RequestType, Respawn
<1>2. /\ tcs' \in [Files -> [obj : {0} \cup Objs, mod : 0 .. changes]]
      /\ objs' \in [Objs -> [file : Files, v : DiskContents]]
      /\ \A f \in Files : tcs'[f].obj # 0 => objs'[tcs'[f].obj].file = f /\ objs'[tcs'[f].obj].v = disk[f].v
  <2>1. disk \in [Files -> [v : DiskContents, t : 0 .. changes]] /\ changes \in Nat
    BY <1>1, Zenon DEF StoreShape
  <2> QED  BY <2>1, <1>1, FilledFresh, Zenon
<1>3. ASSUME NEW r \in Requests
      PROVE  /\ req'[r] \in RequestType /\ req'[r].file = req[r].file /\ req'[r].saw = req[r].saw
             /\ req'[r].carries = req[r].carries /\ req'[r].twice = req[r].twice
             /\ IF req[r].pc \in Handling THEN req'[r].pc = "unavailable" /\ req'[r].obj = 0
                                          ELSE req'[r] = req[r]
  <2>1. req[r] \in RequestType  BY <1>1, Zenon
  <2>2. CASE r \in InFlight
    <3>1. req'[r] = [req[r] EXCEPT !.pc = "unavailable", !.obj = 0] /\ req[r].pc \in Handling
      BY <1>1, <2>2, Zenon DEF InFlight
    <3> QED  BY <3>1, <2>1, Zenon DEF RequestType, Pcs, Errors
  <2>3. CASE r \notin InFlight
    <3>1. req'[r] = req[r] /\ req[r].pc \notin Handling  BY <1>1, <2>3, Zenon DEF InFlight
    <3> QED  BY <3>1, <2>1, Zenon
  <2> QED  BY <2>2, <2>3, Zenon
<1>4. ASSUME NEW r \in Requests PROVE req'[r].pc \notin Handling
  BY <1>3, <1>4, Zenon DEF Handling
<1>5. StoreShape'
  <2>1. req' \in [Requests -> RequestType]  BY <1>1, <1>3, Zenon
  <2>2. \A r \in Requests : PointsWell(r)'
    <3> SUFFICES ASSUME NEW r \in Requests PROVE PointsWell(r)'  BY Zenon
    <3>1. PointsWell(r)  BY <1>1, Zenon DEF StoreShape, PointsWell
    <3>2. req'[r].pc \notin {"find", "contains", "add", "update", "send"}  BY <1>4, Zenon DEF Handling
    <3>3. req'[r].pc = "new" => req[r].pc = "new" /\ req'[r].obj = req[r].obj  BY <1>3, Zenon
    <3> QED  BY <3>1, <3>2, <3>3, Zenon DEF PointsWell
  <2> QED  BY <2>1, <2>2, <1>1, <1>2, Zenon DEF StoreShape, RequestType, PointsWell
<1>6. Fresh'  BY <1>1, <1>2, Zenon DEF Fresh
<1>7. ASSUME NEW r \in Requests PROVE RequestInv(r)'
  <2>1. req'[r].pc \notin {"find", "contains", "add", "update", "send", "panic"}  BY <1>4, Zenon DEF Handling
  <2>2. SeesDisk(r)' /\ ContainsInv(r)' /\ UpdateInv(r)' /\ SendInv(r)'
    BY <2>1, <1>4, Zenon DEF SeesDisk, ContainsInv, UpdateInv, SendInv
  <2>3. EndInv(r)'
    <3>1. CASE req[r].pc \in Handling
      <4>1. req'[r].pc = "unavailable"  BY <3>1, <1>3, Zenon
      <4> QED  BY <4>1, Zenon DEF EndInv
    <3>2. CASE req[r].pc \notin Handling
      <4>1. req'[r] = req[r] /\ EndInv(r)  BY <3>2, <1>3, Zenon DEF StoreInv, RequestInv
      <4>2. AddedByOther(r) => AddedByOther(r)'
        <5> SUFFICES ASSUME AddedByOther(r) PROVE AddedByOther(r)'  BY Zenon
        <5>1. PICK q \in Requests \ {r} : req[q].pc \in Settling /\ req[q].file = req[r].file
          BY Zenon DEF AddedByOther, Settling
        <5>2. req'[q].pc \in Settling /\ req'[q].file = req[q].file  BY <5>1, <1>3, Zenon DEF Settling
        <5> QED  BY <5>1, <5>2, <4>1, Zenon DEF AddedByOther, Settling
      <4> QED  BY <4>1, <4>2, Zenon DEF EndInv, Saw, Unusable, Relinked
    <3> QED  BY <3>1, <3>2, Zenon
  <2> QED  BY <2>2, <2>3, Zenon DEF RequestInv
<1> QED  BY <1>5, <1>6, <1>7, Zenon DEF StoreInv

LEMMA StoreInvInitially ==
    ASSUME TSInit
    PROVE  StoreInv
<1>1. /\ NumFiles \in Nat \ {0} /\ NumRequests \in Nat /\ 1 \in Files /\ 1 \in FileVersions
  BY SearchedAssumption DEF Files
<1>2. /\ changes = 0 /\ changes \in Nat /\ link \in Files /\ replaced = FALSE
      /\ disk \in [Files -> [v : DiskContents, t : 0 .. changes]]
  BY <1>1 DEF TSInit, DiskContents
<1>3. /\ tcs \in [Files -> [obj : {0} \cup Objs, mod : 0 .. changes]]
      /\ objs \in [Objs -> [file : Files, v : DiskContents]]
      /\ \A f \in Files : tcs[f].obj # 0 => objs[tcs[f].obj].file = f /\ objs[tcs[f].obj].v = disk[f].v
  <2>1. tcs = Filled /\ objs = FreshObjs  BY Zenon DEF TSInit
  <2> QED  BY <2>1, <1>2, FilledFresh, Zenon
<1>4. req \in [Requests -> RequestType]
  BY <1>1, Zenon DEF TSInit, RequestType, Pcs, DiskContents
<1>5. \A r \in Requests : req[r].pc = "new" /\ req[r].obj = 0  BY Zenon DEF TSInit
<1>6. StoreShape
  <2>1. \A r \in Requests : PointsWell(r)  BY <1>5, Zenon DEF PointsWell
  <2> QED  BY <2>1, <1>2, <1>3, <1>4, Zenon DEF StoreShape, RequestType, PointsWell
<1>7. Fresh  BY <1>3, Zenon DEF Fresh
<1>8. \A r \in Requests : RequestInv(r)
  BY <1>5, Zenon DEF RequestInv, SeesDisk, ContainsInv, UpdateInv, SendInv, EndInv, Handling
<1> QED  BY <1>6, <1>7, <1>8, Zenon DEF StoreInv

\* A step that touches neither the disk nor the store nor a request.
LEMMA StoreStutter ==
    ASSUME StoreInv, UNCHANGED <<disk, link, tcs, objs, req, replaced, changes>>
    PROVE  StoreInv'
<1>1. StoreShape'  BY Zenon DEF StoreInv, StoreShape
<1>2. Fresh'  BY Zenon DEF StoreInv, Fresh
<1>3. ASSUME NEW r \in Requests PROVE RequestInv(r)'
  <2>1. RequestInv(r)  BY Zenon DEF StoreInv
  <2>2. AddedByOther(r)' = AddedByOther(r)  BY Zenon DEF AddedByOther
  <2>3. SeesDisk(r)'  BY <2>1, Zenon DEF RequestInv, SeesDisk, OnDisk
  <2>4. ContainsInv(r)'  BY <2>1, <2>2, Zenon DEF RequestInv, ContainsInv
  <2>5. UpdateInv(r)'  BY <2>1, Zenon DEF RequestInv, UpdateInv, Unusable
  <2>6. SendInv(r)'  BY <2>1, Zenon DEF RequestInv, SendInv, Saw
  <2>7. EndInv(r)'  BY <2>1, <2>2, Zenon DEF RequestInv, EndInv, Saw, Unusable, Relinked
  <2> QED  BY <2>3, <2>4, <2>5, <2>6, <2>7, Zenon DEF RequestInv
<1> QED  BY <1>1, <1>2, <1>3, Zenon DEF StoreInv

LEMMA StoreInvStep ==
    ASSUME StoreInv, TSNext
    PROVE  StoreInv'
<1>1. CASE Respawn  BY <1>1, RespawnKeeps, Zenon
<1>2. CASE Panic \/ Notified \/ postPeriodic \/ postToolchains
  <2>1. UNCHANGED <<disk, link, tcs, objs, req, replaced, changes>>
    BY <1>2, Zenon DEF Panic, Notified, postPeriodic, postToolchains
  <2> QED  BY <2>1, StoreStutter, Zenon
<1>3. ASSUME NEW r \in Requests, Find(r) \/ StoreContains(r) \/ Add(r) \/ UpdateIfNeeded(r) \/ Send(r)
      PROVE  StoreInv'
  BY <1>3, FindKeeps, StoreContainsKeeps, AddKeeps, UpdateKeeps, SendKeeps, Zenon
<1>4. CASE Change  BY <1>4, ChangeKeeps, Zenon
<1>5. ASSUME NEW r \in Requests, DispatchAndWait(r) PROVE StoreInv'  BY <1>5, DispatchKeeps, Zenon
<1> QED  BY <1>1, <1>2, <1>3, <1>4, <1>5, Zenon DEF TSNext, TSStep

LEMMA StoreInvSound ==
    ASSUME StoreInv
    PROVE  StoreSound
BY Zenon DEF StoreInv, RequestInv, EndInv, StoreSound, CarriesItsCompiler, RefusedWithCause, Saw, AddedByOther

\* The store gives a request the toolchain of its compiler as it was at some time while
\* the request was handled, or a reason not to (store.go:183-215), for any number of
\* compilers, requests and changes on disk.
THEOREM StoreSoundAlways == TSSpec => []StoreSound
<1>1. TSInit => StoreInv  BY StoreInvInitially, Zenon
<1>2. StoreInv /\ [TSNext]_tsVars => StoreInv'
  <2>1. StoreInv /\ TSNext => StoreInv'  BY StoreInvStep, Zenon
  <2>2. UNCHANGED tsVars => UNCHANGED <<disk, link, tcs, objs, req, replaced, changes>>  BY Zenon DEF tsVars
  <2> QED  BY <2>1, <2>2, StoreStutter, Zenon
<1> QED  BY <1>1, <1>2, StoreInvSound, PTL DEF TSSpec

-----------------------------------------------------------------------------
(* setup.                                                                  *)

\* What a run of setup has behind it at each of its steps.
AtFinish == {"rc", "finished"}
AtConnected == {"toolchains", "links", "dotenv", "env"} \cup AtFinish
AtConfigured == {"start", "connect"} \cup AtConnected
AtInstalled == {"service", "restart", "config"} \cup AtConfigured
UpdatingBinary == updated /\ at \in {"copy", "service", "restart"}
RunsBinary == \A o \in SetupOptions : daemon[o] > 0 => daemon[o] = bin

SetupTypes ==
    /\ self \in Versions /\ bin \in Versions \cup {NoFile, Partial}
    /\ daemon \in [SetupOptions -> Versions \cup {Off, Starting}]
    /\ sd \in SetupOptions /\ updated \in BOOLEAN /\ missed \in BOOLEAN
Installation ==
    /\ at \in AtInstalled => bin = self
    /\ at \in AtConfigured => config # {}
    /\ at \in AtConnected => Listening
Environment ==
    /\ at \in {"links", "dotenv", "env"} \cup AtFinish => "bin" \in home
    /\ at \in {"dotenv", "env"} \cup AtFinish => "links" \in home
    /\ at \in {"env"} \cup AtFinish => ".env" \in home
    /\ at \in AtFinish => "env" \in home /\ enabled
SetupInv == SetupTypes /\ Installation /\ Environment /\ (missed \/ RunsBinary \/ UpdatingBinary)

LEMMA VersionsPositive == Versions \subseteq Nat \ {0} /\ NoFile = 0 /\ Off = 0 /\ Partial = -1 /\ Starting = -1
BY VersionAssumption DEF Versions, NoFile, Off, Partial, Starting

LEMMA SetupInvInitially ==
    ASSUME SetupInit
    PROVE  SetupInv
<1>1. SetupTypes
  <2>1. daemon \in [SetupOptions -> Versions \cup {Off, Starting}]  BY Zenon DEF SetupInit
  <2>2. self \in Versions  BY VersionAssumption DEF SetupInit, Versions
  <2> QED  BY <2>1, <2>2, Zenon DEF SetupInit, SetupTypes, SetupOptions
<1>2. at = "idle"  BY Zenon DEF SetupInit
<1>3. RunsBinary  BY Zenon DEF SetupInit, RunsBinary, Off, NoFile
<1>4. Installation  BY <1>2, Zenon DEF Installation, AtInstalled, AtConfigured, AtConnected, AtFinish
<1>5. Environment  BY <1>2, Zenon DEF Environment, AtFinish
<1> QED  BY <1>1, <1>3, <1>4, <1>5, Zenon DEF SetupInv

\* A daemon that starts runs the binary that is there, and none is started in its place.
LEMMA DaemonKeeps ==
    ASSUME SetupInv, NEW o \in SetupOptions, Daemon(o)
    PROVE  SetupInv'
<1>1. /\ daemon[o] = Starting /\ UNCHANGED <<bin, config, home, enabled, self, sd, updated, at, missed>>
      /\ daemon \in [SetupOptions -> Versions \cup {Off, Starting}]
  BY Zenon DEF Daemon, process, SetupInv, SetupTypes
<1>2. PICK v \in {bin, Off} : daemon' = [daemon EXCEPT ![o] = v] /\ (v = bin => bin > 0 \/ bin = Off)
  BY Zenon DEF Daemon, Off, NoFile
<1>3. v \in Versions \cup {Off, Starting}
  BY <1>2, VersionsPositive, Zenon DEF SetupInv, SetupTypes
<1>4. daemon' \in [SetupOptions -> Versions \cup {Off, Starting}] /\ daemon'[o] = v
      /\ \A p \in SetupOptions \ {o} : daemon'[p] = daemon[p]
  BY <1>1, <1>2, <1>3, Zenon
<1>5. SetupTypes'  BY <1>1, <1>4, Zenon DEF SetupInv, SetupTypes
<1>6. Listening => Listening'
  <2> SUFFICES ASSUME NEW p \in SetupOptions, daemon[p] > 0 PROVE Listening'  BY Zenon DEF Listening
  <2>1. p # o  BY <1>1, VersionsPositive
  <2> QED  BY <2>1, <1>4, Zenon DEF Listening
<1>7. RunsBinary => RunsBinary'
  BY <1>1, <1>2, <1>4, VersionsPositive DEF RunsBinary
<1>8. Installation'  BY <1>1, <1>6, Zenon DEF SetupInv, Installation
<1>9. Environment'  BY <1>1, Zenon DEF SetupInv, Environment
<1>10. UpdatingBinary' = UpdatingBinary  BY <1>1, Zenon DEF UpdatingBinary
<1> QED  BY <1>1, <1>5, <1>7, <1>8, <1>9, <1>10, Zenon DEF SetupInv

\* Steps that neither the daemons nor the binary notice.
LEMMA MachineKept ==
    ASSUME SetupInv, UNCHANGED <<bin, daemon, sd, updated, missed>>, self' \in Versions, ~UpdatingBinary \/ UpdatingBinary'
    PROVE  SetupTypes' /\ (missed \/ RunsBinary \/ UpdatingBinary)' /\ (Listening => Listening')
<1>1. SetupTypes'  BY Zenon DEF SetupInv, SetupTypes
<1>2. RunsBinary => RunsBinary'  BY Zenon DEF RunsBinary
<1>3. Listening => Listening'  BY Zenon DEF Listening
<1> QED  BY <1>1, <1>2, <1>3, Zenon DEF SetupInv

LEMMA CmdKeeps ==
    ASSUME SetupInv, SetupCmd \/ TeardownCmd \/ WriteEnvFile \/ Exit
    PROVE  SetupInv'
<1>1. /\ at' \in {"binary", "teardown", "idle"} /\ UNCHANGED <<bin, daemon, sd, updated, missed>> /\ ~UpdatingBinary
  BY Zenon DEF SetupCmd, TeardownCmd, WriteEnvFile, Exit, machine, process, UpdatingBinary
<1>2. self' \in Versions
  <2>1. self \in Versions  BY Zenon DEF SetupInv, SetupTypes
  <2>2. CASE SetupCmd  BY <2>1, <2>2, VersionAssumption DEF SetupCmd, Versions
  <2>3. CASE TeardownCmd \/ WriteEnvFile \/ Exit
    BY <2>1, <2>3, Zenon DEF TeardownCmd, WriteEnvFile, Exit, process
  <2> QED  BY <2>2, <2>3, Zenon
<1>3. Installation'  BY <1>1, Zenon DEF Installation, AtInstalled, AtConfigured, AtConnected, AtFinish
<1>4. Environment'  BY <1>1, Zenon DEF Environment, AtFinish
<1> QED  BY <1>1, <1>2, <1>3, <1>4, MachineKept, Zenon DEF SetupInv

LEMMA StopKeeps ==
    ASSUME SetupInv, Stop
    PROVE  SetupInv'
<1>1. /\ at' = "idle" /\ missed' = (missed \/ UpdatingBinary) /\ UNCHANGED <<self, bin, daemon, sd, updated>>
  BY Zenon DEF Stop, machine, process, UpdatingBinary
<1>2. SetupTypes'  BY <1>1, Zenon DEF SetupInv, SetupTypes
<1>3. RunsBinary => RunsBinary'  BY <1>1, Zenon DEF RunsBinary
<1>4. Installation'  BY <1>1, Zenon DEF Installation, AtInstalled, AtConfigured, AtConnected, AtFinish
<1>5. Environment'  BY <1>1, Zenon DEF Environment, AtFinish
<1> QED  BY <1>1, <1>2, <1>3, <1>4, <1>5, Zenon DEF SetupInv

\* The binary is removed: of an installation found, the daemon is to be restarted.
LEMMA InstallKeeps ==
    ASSUME SetupInv, installOrUpdateBinary
    PROVE  SetupInv'
<1>1. at = "binary" /\ self' = self  BY Zenon DEF installOrUpdateBinary, Step
<1>2. missed \/ RunsBinary  BY <1>1, Zenon DEF SetupInv, UpdatingBinary
<1>3. CASE Found /\ ~binaryNeedsUpdate
  <2>1. /\ at' = "service" /\ updated' = FALSE /\ bin = self /\ UNCHANGED <<bin, daemon, sd, missed, self>>
    BY <1>3, Zenon DEF installOrUpdateBinary, Step, machine, binaryNeedsUpdate
  <2>2. SetupTypes' /\ (RunsBinary => RunsBinary')  BY <2>1, Zenon DEF SetupInv, SetupTypes, RunsBinary
  <2>3. Installation' /\ Environment'
    BY <2>1, Zenon DEF Installation, Environment, AtInstalled, AtConfigured, AtConnected, AtFinish
  <2> QED  BY <2>1, <2>2, <2>3, <1>2, Zenon DEF SetupInv
<1>4. CASE ~(Found /\ ~binaryNeedsUpdate)
  <2>1. /\ at' = "copy" /\ updated' = Found /\ bin' = NoFile /\ missed' = (missed \/ (Listening /\ ~Found))
        /\ UNCHANGED <<daemon, sd, self>>
    BY <1>4, Zenon DEF installOrUpdateBinary, Step
  <2>2. Found \in BOOLEAN /\ Listening \in BOOLEAN  BY Zenon DEF Found, Listening
  <2>3. SetupTypes'
    <3>1. missed' \in BOOLEAN /\ updated' \in BOOLEAN  BY <2>1, <2>2, Zenon
    <3> QED  BY <2>1, <3>1, Zenon DEF SetupInv, SetupTypes
  <2>4. Installation' /\ Environment'
    BY <2>1, Zenon DEF Installation, Environment, AtInstalled, AtConfigured, AtConnected, AtFinish
  <2>5. ~missed' /\ ~Found => RunsBinary'  BY <2>1, Zenon DEF RunsBinary, Listening
  <2>6. Found => UpdatingBinary'  BY <2>1, Zenon DEF UpdatingBinary
  <2> QED  BY <2>3, <2>4, <2>5, <2>6, Zenon DEF SetupInv
<1> QED  BY <1>3, <1>4, Zenon

LEMMA CopyKeeps ==
    ASSUME SetupInv, copySelfTo
    PROVE  SetupInv'
<1>1. /\ at = "copy"
      /\ \/ bin = NoFile /\ bin' = Partial /\ at' = "copy"
         \/ bin = Partial /\ bin' = self /\ at' = "service"
      /\ UNCHANGED <<daemon, sd, updated, missed, self>>
  BY Zenon DEF copySelfTo, Step
<1>2. SetupTypes'  BY <1>1, Zenon DEF SetupInv, SetupTypes
<1>3. Installation' /\ Environment'
  BY <1>1, Zenon DEF Installation, Environment, AtInstalled, AtConfigured, AtConnected, AtFinish
<1>4. UpdatingBinary => UpdatingBinary'  BY <1>1, Zenon DEF UpdatingBinary
<1>5. RunsBinary => RunsBinary'
  <2>1. \A o \in SetupOptions : RunsBinary => ~(daemon[o] > 0)  BY <1>1, VersionsPositive DEF RunsBinary
  <2> QED  BY <2>1, <1>1, Zenon DEF RunsBinary
<1> QED  BY <1>1, <1>2, <1>3, <1>4, <1>5, Zenon DEF SetupInv

LEMMA ServiceKeeps ==
    ASSUME SetupInv, installConsumerd
    PROVE  SetupInv'
<1>1. /\ at = "service" /\ at' = (IF updated THEN "restart" ELSE "config") /\ sd' \in SetupOptions
      /\ UNCHANGED <<bin, daemon, config, home, updated, missed, self>>
  BY Zenon DEF installConsumerd, Step, SetupOptions
<1>2. SetupTypes' /\ (RunsBinary => RunsBinary')  BY <1>1, Zenon DEF SetupInv, SetupTypes, RunsBinary
<1>3. at' \in {"restart", "config"} /\ bin' = self'
  BY <1>1, Zenon DEF SetupInv, Installation, AtInstalled
<1>4. Installation' /\ Environment'
  BY <1>3, Zenon DEF Installation, Environment, AtInstalled, AtConfigured, AtConnected, AtFinish
<1>5. UpdatingBinary => UpdatingBinary'  BY <1>1, Zenon DEF UpdatingBinary
<1> QED  BY <1>1, <1>2, <1>4, <1>5, Zenon DEF SetupInv

\* The restart: no daemon runs the old binary, or it was missed.
LEMMA RestartKeeps ==
    ASSUME SetupInv, RestartStep
    PROVE  SetupInv'
<1>1. /\ at = "restart" /\ at' = "config" /\ daemon' = [daemon EXCEPT ![sd] = Starting]
      /\ missed' = (missed \/ \E o \in SetupOptions \ {sd} : daemon[o] > 0)
      /\ UNCHANGED <<bin, config, home, sd, updated, self>>
  BY Zenon DEF RestartStep, Step, restartConsumerd, Restart
<1>2. daemon \in [SetupOptions -> Versions \cup {Off, Starting}] /\ sd \in SetupOptions
  BY Zenon DEF SetupInv, SetupTypes
<1>3. daemon' \in [SetupOptions -> Versions \cup {Off, Starting}] /\ daemon'[sd] = Starting
      /\ \A o \in SetupOptions \ {sd} : daemon'[o] = daemon[o]
  BY <1>1, <1>2, Zenon
<1>4. SetupTypes'
  <2>1. missed' \in BOOLEAN  BY <1>1, Zenon DEF SetupInv, SetupTypes
  <2> QED  BY <2>1, <1>1, <1>3, Zenon DEF SetupInv, SetupTypes
<1>5. at' = "config" /\ bin' = self'  BY <1>1, Zenon DEF SetupInv, Installation, AtInstalled
<1>6. Installation' /\ Environment'
  BY <1>5, Zenon DEF Installation, Environment, AtInstalled, AtConfigured, AtConnected, AtFinish
<1>7. ~missed' => RunsBinary'
  <2> SUFFICES ASSUME ~missed', NEW o \in SetupOptions PROVE ~(daemon'[o] > 0)  BY Zenon DEF RunsBinary
  <2>1. CASE o = sd  BY <2>1, <1>3, VersionsPositive
  <2>2. CASE o # sd  BY <2>2, <1>1, <1>3, Zenon
  <2> QED  BY <2>1, <2>2, Zenon
<1> QED  BY <1>4, <1>6, <1>7, Zenon DEF SetupInv

LEMMA ConfigKeeps ==
    ASSUME SetupInv, checkConfig
    PROVE  SetupInv'
<1>1. /\ at = "config" /\ at' = "start" /\ config' = config \cup {sd}
      /\ UNCHANGED <<bin, daemon, sd, updated, missed, self>>
  BY Zenon DEF checkConfig, Step, ConfigOf
<1>2. bin' = self' /\ config' # {} /\ self' \in Versions
  BY <1>1, Zenon DEF SetupInv, SetupTypes, Installation, AtInstalled
<1>3. Installation' /\ Environment'
  BY <1>1, <1>2, Zenon DEF Installation, Environment, AtInstalled, AtConfigured, AtConnected, AtFinish
<1>4. ~UpdatingBinary  BY <1>1, Zenon DEF UpdatingBinary
<1> QED  BY <1>1, <1>2, <1>3, <1>4, MachineKept, Zenon DEF SetupInv

LEMMA StartKeeps ==
    ASSUME SetupInv, startConsumerd
    PROVE  SetupInv'
<1>1. /\ at = "start" /\ at' \in {"binary", "connect"} /\ UNCHANGED <<bin, config, home, sd, updated, missed, self>>
      /\ (UNCHANGED daemon \/ daemon' = [daemon EXCEPT ![sd] = Starting])
  BY Zenon DEF startConsumerd, Step, sudoPostRun, Restart
<1>2. daemon \in [SetupOptions -> Versions \cup {Off, Starting}] /\ sd \in SetupOptions
  BY Zenon DEF SetupInv, SetupTypes
<1>3. /\ daemon' \in [SetupOptions -> Versions \cup {Off, Starting}]
      /\ \A o \in SetupOptions : daemon'[o] \in {daemon[o], Starting}
  BY <1>1, <1>2, Zenon
<1>4. SetupTypes'  BY <1>1, <1>3, Zenon DEF SetupInv, SetupTypes
<1>5. bin' = self' /\ config' # {}
  BY <1>1, Zenon DEF SetupInv, Installation, AtInstalled, AtConfigured
<1>6. Installation' /\ Environment'
  BY <1>1, <1>5, Zenon DEF Installation, Environment, AtInstalled, AtConfigured, AtConnected, AtFinish
<1>7. RunsBinary => RunsBinary'  BY <1>1, <1>3, VersionsPositive DEF RunsBinary
<1>8. ~UpdatingBinary  BY <1>1, Zenon DEF UpdatingBinary
<1> QED  BY <1>1, <1>4, <1>6, <1>7, <1>8, Zenon DEF SetupInv

\* From the connection on, only files are made.
LEMMA ConnectKeeps ==
    ASSUME SetupInv, connectToConsumerd
    PROVE  SetupInv'
<1>1. /\ at = "connect" /\ at' = "toolchains" /\ Listening /\ UNCHANGED <<bin, daemon, config, sd, updated, missed, self>>
  BY Zenon DEF connectToConsumerd, Step, machine
<1>2. bin' = self' /\ config' # {} /\ self' \in Versions /\ ~UpdatingBinary
  BY <1>1, Zenon DEF SetupInv, SetupTypes, Installation, AtInstalled, AtConfigured, UpdatingBinary
<1>3. Listening'  BY <1>1, Zenon DEF Listening
<1>4. Installation' /\ Environment'
  BY <1>1, <1>2, <1>3, Zenon DEF Installation, Environment, AtInstalled, AtConfigured, AtConnected, AtFinish
<1> QED  BY <1>1, <1>2, <1>4, MachineKept, Zenon DEF SetupInv

LEMMA FillKeeps ==
    ASSUME SetupInv, setupToolchains \/ setupEnv
    PROVE  SetupInv'
<1>1. /\ at \in AtConnected \ {"finished"} /\ at' \in AtConnected
      /\ UNCHANGED <<bin, daemon, config, sd, updated, missed, self>>
  BY Zenon DEF setupToolchains, setupEnv, Fill, Step, AtConnected, AtFinish
<1>2. Listening /\ bin = self /\ config # {} /\ self' \in Versions /\ ~UpdatingBinary
  BY <1>1, Zenon DEF SetupInv, SetupTypes, Installation, AtInstalled, AtConfigured, AtConnected, AtFinish, UpdatingBinary
<1>3. Listening'  BY <1>1, <1>2, Zenon DEF Listening
<1>4. Installation'  BY <1>1, <1>2, <1>3, Zenon DEF Installation
<1>5. Environment'
  <2>1. CASE Fill("toolchains", "links", {".env", "env"}, {"bin"})
    BY <2>1, Zenon DEF Fill, Step, Environment, AtFinish
  <2>2. CASE Fill("links", "dotenv", home, {"links"})
    BY <2>2, Zenon DEF Fill, Step, Environment, AtFinish, SetupInv
  <2>3. CASE Fill("dotenv", "env", home, {".env"})
    BY <2>3, Zenon DEF Fill, Step, Environment, AtFinish, SetupInv
  <2>4. CASE Fill("env", "rc", home, {"env"}) /\ enabled' = TRUE
    BY <2>4, Zenon DEF Fill, Step, Environment, AtFinish, SetupInv
  <2>5. CASE Fill("rc", "finished", home, {}) /\ UNCHANGED enabled
    BY <2>5, Zenon DEF Fill, Step, Environment, AtFinish, SetupInv
  <2> QED  BY <2>1, <2>2, <2>3, <2>4, <2>5, Zenon DEF setupToolchains, setupEnv
<1> QED  BY <1>1, <1>2, <1>4, <1>5, MachineKept, Zenon DEF SetupInv

LEMMA TeardownKeeps ==
    ASSUME SetupInv, TeardownStep
    PROVE  SetupInv'
<1>1. at = "teardown" /\ at' \in {"teardown", "idle"} /\ UNCHANGED <<self, sd, updated>>
  BY Zenon DEF TeardownStep
<1>2. Installation' /\ Environment'
  BY <1>1, Zenon DEF Installation, Environment, AtInstalled, AtConfigured, AtConnected, AtFinish
<1>3. self' \in Versions /\ ~UpdatingBinary  BY <1>1, Zenon DEF SetupInv, SetupTypes, UpdatingBinary
<1>4. CASE todo = {}
  <2>1. UNCHANGED <<bin, daemon, missed>>  BY <1>4, Zenon DEF TeardownStep, machine
  <2> QED  BY <2>1, <1>1, <1>2, <1>3, MachineKept, Zenon DEF SetupInv
<1>5. CASE todo # {}
  <2>1. PICK part : /\ daemon' \in [SetupOptions -> Versions \cup {Off, Starting}]
                    /\ \A o \in SetupOptions : daemon'[o] \in {daemon[o], Off}
                    /\ bin' = IF part = <<"binary">> THEN NoFile ELSE bin
                    /\ missed' = (missed \/ (part = <<"binary">> /\ Listening))
    <3>1. PICK part \in todo : LET gone == {o \in SetupOptions : part = <<"unit", o>> /\ Allowed(part)} IN
             /\ daemon' = [o \in SetupOptions |-> IF o \in gone THEN Off ELSE daemon[o]]
             /\ bin' = IF part = <<"binary">> THEN NoFile ELSE bin
             /\ missed' = (missed \/ (part = <<"binary">> /\ Listening))
      BY <1>5, Zenon DEF TeardownStep
    <3>2. daemon \in [SetupOptions -> Versions \cup {Off, Starting}]  BY Zenon DEF SetupInv, SetupTypes
    <3>3. /\ daemon' \in [SetupOptions -> Versions \cup {Off, Starting}]
          /\ \A o \in SetupOptions : daemon'[o] \in {daemon[o], Off}
      BY <3>1, <3>2, Zenon
    <3> QED  BY <3>1, <3>3, Zenon
  <2>2. SetupTypes'
    <3>1. missed' \in BOOLEAN  BY <2>1, Zenon DEF SetupInv, SetupTypes, Listening
    <3> QED  BY <3>1, <2>1, <1>1, Zenon DEF SetupInv, SetupTypes
  <2>3. missed' \/ RunsBinary'
    <3>1. CASE part = <<"binary">>  BY <3>1, <2>1, VersionsPositive, Zenon DEF RunsBinary, Listening
    <3>2. CASE part # <<"binary">>
      <4>1. bin' = bin /\ (missed => missed')  BY <3>2, <2>1, Zenon
      <4>2. RunsBinary => RunsBinary'  BY <4>1, <2>1, VersionsPositive DEF RunsBinary
      <4> QED  BY <4>1, <4>2, <1>3, Zenon DEF SetupInv
    <3> QED  BY <3>1, <3>2, Zenon
  <2> QED  BY <2>2, <2>3, <1>2, Zenon DEF SetupInv
<1> QED  BY <1>4, <1>5, Zenon

LEMMA SetupInvStep ==
    ASSUME SetupInv, SetupNext
    PROVE  SetupInv'
BY CmdKeeps, StopKeeps, InstallKeeps, CopyKeeps, ServiceKeeps, RestartKeeps, ConfigKeeps, StartKeeps,
   ConnectKeeps, FillKeeps, TeardownKeeps, DaemonKeeps, Zenon DEF SetupNext, SetupStep

LEMMA SetupInvSound ==
    ASSUME SetupInv
    PROVE  FinishedIsComplete /\ RunsInstalledBinary
<1>1. FinishedIsComplete
  BY Zenon DEF SetupInv, Installation, Environment, FinishedIsComplete, AtInstalled, AtConfigured, AtConnected, AtFinish
<1>2. RunsInstalledBinary  BY Zenon DEF SetupInv, RunsInstalledBinary, RunsBinary, UpdatingBinary
<1> QED  BY <1>1, <1>2, Zenon

\* A run of setup that finishes leaves the binary that ran, a config file, a consumerd
\* that listens and the files the shell sources (setup.go:975-1021), whatever earlier runs
\* and teardowns left half done, for any number of versions and runs; and unless a restart
\* was missed, what listens is the binary installed.
THEOREM SetupCompleteAlways == SetupSpec => [](FinishedIsComplete /\ RunsInstalledBinary)
<1>1. SetupInit => SetupInv  BY SetupInvInitially, Zenon
<1>2. SetupInv /\ [SetupNext]_setupVars => SetupInv'
  <2> SUFFICES ASSUME SetupInv, [SetupNext]_setupVars PROVE SetupInv'  BY Zenon
  <2>1. CASE UNCHANGED setupVars
    <3>1. UNCHANGED <<self, bin, daemon, sd, updated, missed, at, config, home, enabled>>
      BY <2>1, Zenon DEF setupVars, machine, process
    <3>2. Listening' = Listening /\ UpdatingBinary' = UpdatingBinary /\ RunsBinary' = RunsBinary
      BY <3>1, Zenon DEF Listening, UpdatingBinary, RunsBinary
    <3> QED  BY <3>1, <3>2, Zenon DEF SetupInv, SetupTypes, Installation, Environment
  <2> QED  BY <2>1, SetupInvStep, Zenon
<1> QED  BY <1>1, <1>2, SetupInvSound, PTL DEF SetupSpec

-----------------------------------------------------------------------------
(* kubecc run.                                                             *)

LaunchInv ==
    /\ up \subseteq Procs /\ DOMAIN stage = Procs
    /\ \A p \in Procs : stage[p] \in [Instances(p) -> Nat]

LEMMA LaunchInvInitially ==
    ASSUME LaunchInit
    PROVE  LaunchInv
BY Zenon DEF LaunchInit, LaunchInv

LEMMA StageKept ==
    ASSUME LaunchInv, NEW p \in Procs, NEW s \in [Instances(p) -> Nat], stage' = [stage EXCEPT ![p] = s],
           up' \subseteq Procs
    PROVE  LaunchInv'
<1>1. DOMAIN stage' = Procs  BY Zenon DEF LaunchInv
<1>2. ASSUME NEW q \in Procs PROVE stage'[q] \in [Instances(q) -> Nat]
  <2>1. CASE q = p  BY <2>1, Zenon DEF LaunchInv
  <2>2. CASE q # p  BY <2>2, Zenon DEF LaunchInv
  <2> QED  BY <2>1, <2>2, Zenon
<1> QED  BY <1>1, <1>2, Zenon DEF LaunchInv

LEMMA LaunchInvStep ==
    ASSUME LaunchInv, LaunchNext
    PROVE  LaunchInv'
<1>1. ASSUME NEW p \in Procs, NEW k \in {0, 1}, stage' = At(p, k), up' \subseteq Procs PROVE LaunchInv'
  <2>1. [i \in Instances(p) |-> k] \in [Instances(p) -> Nat]  OBVIOUS
  <2> QED  BY <1>1, <2>1, StageKept, Zenon DEF At
<1>2. ASSUME NEW p \in Procs, NEW i \in Instances(p), Proceed(p, i) PROVE LaunchInv'
  <2> DEFINE s == [stage[p] EXCEPT ![i] = @ + 1]
  <2>1. s \in [Instances(p) -> Nat]  BY DEF LaunchInv
  <2>2. stage' = [stage EXCEPT ![p] = s] /\ up' \subseteq Procs  BY <1>2, Zenon DEF Proceed, LaunchInv
  <2> HIDE DEF s
  <2> QED  BY <2>1, <2>2, StageKept, Zenon
<1>3. ASSUME NEW p \in Procs, RunCmd(p) \/ Killed(p) PROVE LaunchInv'
  <2>1. up' \subseteq Procs /\ (stage' = At(p, 0) \/ stage' = At(p, 1))  BY <1>3, Zenon DEF RunCmd, Killed, LaunchInv
  <2> QED  BY <2>1, <1>1, Zenon
<1>4. ASSUME NEW p \in Procs, NEW i \in Instances(p), StartStep(p, i) \/ ServeFails(p, i) PROVE LaunchInv'
  <2>1. CASE Proceed(p, i)  BY <2>1, <1>2, Zenon
  <2>2. CASE Fatal(p, i)
    <3>1. up' \subseteq Procs /\ stage' = At(p, 0)  BY <2>2, Zenon DEF Fatal, LaunchInv
    <3> QED  BY <3>1, <1>1, Zenon
  <2> QED  BY <1>4, <2>1, <2>2, Zenon DEF StartStep, ServeFails
<1> QED  BY <1>3, <1>4, Zenon DEF LaunchNext, LaunchStep

LEMMA LaunchInvSound ==
    ASSUME LaunchInv
    PROVE  ListedIsListening
<1> SUFFICES ASSUME NEW p \in up, NEW i \in Instances(p), Past(p, i, "new"),
                    i[2] \in DOMAIN ListenAddress \ {"consumerd"}
             PROVE  Past(p, i, "listen")
  BY Zenon DEF ListedIsListening, Listens
<1>1. stage[p][i] \in Nat  BY Zenon DEF LaunchInv
<1>2. i[2] \in {"monitor", "scheduler", "cache"}  BY ListenAssumption, Zenon
<1>3. StartSteps[i[2]][1] = "listen"
  <2>1. /\ StartSteps["monitor"] = runMonitor /\ StartSteps["scheduler"] = runScheduler
        /\ StartSteps["cache"] = runCache
    BY Zenon DEF StartSteps
  <2>2. runMonitor[1] = "listen"  BY Zenon DEF runMonitor
  <2>3. runScheduler[1] = "listen"  BY Zenon DEF runScheduler
  <2>4. runCache[1] = "listen"  BY Zenon DEF runCache
  <2> QED  BY <2>1, <2>2, <2>3, <2>4, <1>2, Zenon
<1>4. PICK k \in 1 .. stage[p][i] - 1 : StartSteps[i[2]][k] = "new"  BY Zenon DEF Past
<1>5. 1 \in 1 .. stage[p][i] - 1
  <2>1. k \in Nat \ {0} /\ k <= stage[p][i] - 1  BY <1>1, <1>4
  <2> QED  BY <2>1, <1>1, SMTT(30)
<1> QED  BY <1>3, <1>5, Zenon DEF Past

\* A server other than consumerd that `kubecc run` lists with the monitor listens
\* (components/run.go:84), whichever processes are started, killed and started again.
THEOREM ListedIsListeningAlways == LaunchSpec => []ListedIsListening
<1>1. LaunchInit => LaunchInv  BY LaunchInvInitially, Zenon
<1>2. LaunchInv /\ [LaunchNext]_launchVars => LaunchInv'
  <2>1. LaunchInv /\ LaunchNext => LaunchInv'  BY LaunchInvStep, Zenon
  <2>2. LaunchInv /\ UNCHANGED launchVars => LaunchInv'  BY Zenon DEF launchVars, LaunchInv
  <2> QED  BY <2>1, <2>2, Zenon
<1> QED  BY <1>1, <1>2, LaunchInvSound, PTL DEF LaunchSpec
=============================================================================
