--------------------------- MODULE ToolchainStore ---------------------------
(* The compilers a consumerd knows: the store (pkg/toolchains/store.go), filled   *)
(* when the process starts (cc/finder.go, discovery.go) and kept up to date by    *)
(* the requests themselves (consumerd/server.go, applyToolchainToReq), while      *)
(* compilers are installed, upgraded, broken, removed and relinked on disk.  The  *)
(* consumer (consumer/path_search.go) picks the path.  A toolchain is an object   *)
(* that the store and the requests share by pointer; what a querier finds out     *)
(* about a file is its version.                                                   *)
EXTENDS Integers, FiniteSets

CONSTANTS NumFiles,     \* compiler executables, 1 .. NumFiles
          Searched,     \* those in a directory that FindToolchains lists
          FileVersions, \* what a compiler can be, positive numbers
          NumRequests,  \* bound: requests; they start in order
          MaxChanges    \* bound: changes on disk

\* Types; the compiler that the link names exists at first, in version 1.
ASSUME SearchedAssumption ==
    /\ NumFiles \in Nat \ {0} /\ NumRequests \in Nat /\ MaxChanges \in Nat
    /\ Searched \subseteq 1 .. NumFiles /\ 1 \in FileVersions /\ FileVersions \subseteq Nat \ {0}

VARIABLES disk,      \* [v, t]: version and modification time of each file
          link,      \* the file that the compiler's name in PATH is a link to
          tcs,       \* toolchains: [obj, mod] of each file, obj 0 when there is none
          objs,      \* the toolchain objects
          req,       \* the requests
          signal,    \* storeUpdateCh, a channel for one signal
          posts,     \* lists on their way to the monitor
          posted,    \* the toolchains the monitor has of this consumerd
          down,      \* the process has panicked
          replaced,  \* a toolchain was added while a request was to update an earlier one
          changes

tsVars == <<disk, link, tcs, objs, req, signal, posts, posted, down, replaced, changes>>

Files == 1 .. NumFiles
Requests == 1 .. NumRequests
Objs == 1 .. NumFiles + NumRequests
Missing == 0
Broken == -1
DiskContents == FileVersions \cup {Missing, Broken}
Good(f) == disk[f].v \in FileVersions
Removed == [obj |-> 0, mod |-> 0]
Handling == {"find", "contains", "add", "update", "send", "panic"}
Errors == {"nocompiler", "exists", "invalid", "unavailable"}
InFlight == {r \in Requests : req[r].pc \in Handling}

TSTypeOK ==
    /\ disk \in [Files -> [v : DiskContents, t : 0 .. MaxChanges]] /\ link \in Files
    /\ tcs \in [Files -> [obj : {0} \cup Objs, mod : 0 .. MaxChanges]]
    /\ objs \in [Objs -> [file : Files, v : DiskContents]]
    /\ \A f \in Files : tcs[f].obj # 0 => objs[tcs[f].obj].file = f /\ objs[tcs[f].obj].v # Missing
    /\ \A r \in Requests : /\ req[r].pc \in {"new", "sent"} \cup Handling \cup Errors
                           /\ req[r].file \in Files /\ req[r].obj \in {0} \cup Objs
                           /\ req[r].pc \in {"update", "send"} => req[r].obj # 0
                           /\ req[r].carries \in DiskContents /\ req[r].twice \in BOOLEAN
                           /\ req[r].saw \subseteq [link : Files, file : Files, v : DiskContents]
    /\ signal \in BOOLEAN /\ posts \subseteq [Files -> DiskContents] /\ posted \in [Files -> DiskContents]
    /\ down \in BOOLEAN /\ replaced \in BOOLEAN /\ changes \in 0 .. MaxChanges

\* NewConsumerdServer: FindToolchains lists the directories it searches and adds what
\* it can query.  A file's first object has the file's number.
Filled == [f \in Files |-> IF f \in Searched /\ Good(f) THEN [obj |-> f, mod |-> disk[f].t] ELSE Removed]
FreshObjs == [o \in Objs |-> IF o \in Files /\ o \in Searched /\ Good(o)
                             THEN [file |-> o, v |-> disk[o].v] ELSE [file |-> 1, v |-> Missing]]
TSInit ==
    /\ disk = [f \in Files |-> [v |-> 1, t |-> 0]] /\ link = 1
    /\ tcs = Filled /\ objs = FreshObjs
    /\ req = [r \in Requests |-> [pc |-> "new", file |-> 1, obj |-> 0, carries |-> Missing,
                                  twice |-> FALSE, saw |-> {}]]
    /\ signal = FALSE /\ posts = {} /\ posted = [f \in Files |-> Missing]
    /\ down = FALSE /\ replaced = FALSE /\ changes = 0

----------------------------------------------------------------------------
(* The disk, and the consumer. *)

OnDisk(d, l) == {[link |-> l, file |-> f, v |-> d[f].v] : f \in Files}
Change ==
    /\ changes < MaxChanges /\ changes' = changes + 1
    /\ \/ /\ \E f \in Files : \E v \in DiskContents \ {disk[f].v} : disk' = [disk EXCEPT ![f] = [v |-> v, t |-> changes']]
          /\ UNCHANGED link
       \/ link' \in Files \ {link} /\ UNCHANGED disk
    /\ req' = [r \in Requests |-> IF r \in InFlight THEN [req[r] EXCEPT !.saw = @ \cup OnDisk(disk', link')] ELSE req[r]]
    /\ UNCHANGED <<tcs, objs, signal, posts, posted, down, replaced>>

\* lookPath: the first executable in PATH that is not kubecc itself; a broken compiler
\* is an executable too.  DispatchAndWait dies, or sends the request.
lookPath == disk[link].v # Missing
DispatchAndWait(r) ==
    /\ ~down /\ req[r].pc = "new" /\ (r > 1 => req[r - 1].pc # "new")
    /\ req' = [req EXCEPT ![r].pc = IF lookPath THEN "find" ELSE "nocompiler",
                          ![r].saw = OnDisk(disk, link)]
    /\ UNCHANGED <<disk, link, tcs, objs, signal, posts, posted, down, replaced, changes>>

----------------------------------------------------------------------------
(* applyToolchainToReq.  Each step is under the store's lock. *)

Unused == {o \in Objs : /\ \A f \in Files : tcs[f].obj # o
                        /\ \A r \in InFlight : req[r].obj # o}
ItemsList == [f \in Files |-> IF tcs[f].obj = 0 THEN Missing ELSE objs[tcs[f].obj].v]

Find(r) ==
    /\ req[r].pc = "find"
    /\ req' = [req EXCEPT ![r].file = link, ![r].obj = tcs[link].obj,
                          ![r].pc = IF tcs[link].obj = 0 THEN "contains" ELSE "update"]
    /\ UNCHANGED <<disk, link, tcs, objs, signal, posts, posted, down, replaced, changes>>

\* Add resolves the link again, asks StoreContains, then locks the store.
Refused == "exists"
StoreContains(r) ==
    /\ req[r].pc = "contains"
    /\ req' = [req EXCEPT ![r].file = link, ![r].pc = IF tcs[link].obj # 0 THEN Refused ELSE "add"]
    /\ UNCHANGED <<disk, link, tcs, objs, signal, posts, posted, down, replaced, changes>>

\* Request q has found a toolchain of f in the store and is to update it.
Updating(q, f) == req[q].pc = "update" /\ objs[req[q].obj].file = f
Add(r) ==
    /\ req[r].pc = "add"
    /\ LET f == req[r].file
           o == CHOOSE o \in Unused : TRUE
       IN  IF Good(f)
           THEN /\ objs' = [objs EXCEPT ![o] = [file |-> f, v |-> disk[f].v]]
                /\ tcs' = [tcs EXCEPT ![f] = [obj |-> o, mod |-> disk[f].t]]
                /\ replaced' = (replaced \/ \E q \in Requests : Updating(q, f))
                /\ req' = [req EXCEPT ![r].obj = o, ![r].pc = "send"] /\ signal' = TRUE
           ELSE req' = [req EXCEPT ![r].pc = "invalid"] /\ UNCHANGED <<objs, tcs, replaced, signal>>
    /\ UNCHANGED <<disk, link, posts, posted, down, changes>>

\* UpdateIfNeeded.  A toolchain that is no longer in the store is a nil dereference.
\* When the update fails, errors.As is called with a *fs.PathError as its target, and
\* panics: the struct it points to is not an error.  fillInfo has by then cleared a part
\* of the toolchain that the store still has.
NoLonger(f) == disk[f].v = Missing
AlwaysSame(d, f) == TRUE                                 \* mutant of SameFile
SameFile(d, f) == d.mod = disk[f].t
Refilled(o, f) == objs' = [objs EXCEPT ![o].v = disk[f].v]
UpdateIfNeeded(r) ==
    /\ req[r].pc = "update"
    /\ LET o == req[r].obj  f == objs[o].file  data == tcs[f] IN
       \/ /\ data.obj = 0 /\ req' = [req EXCEPT ![r].pc = "panic"]
          /\ UNCHANGED <<tcs, objs, signal>>
       \/ /\ data.obj # 0 /\ NoLonger(f)
          /\ tcs' = [tcs EXCEPT ![f] = Removed] /\ signal' = TRUE
          /\ req' = [req EXCEPT ![r].pc = "panic"] /\ UNCHANGED objs
       \/ /\ data.obj # 0 /\ ~NoLonger(f) /\ ~SameFile(data, f)
          /\ Refilled(o, f) /\ signal' = TRUE
          /\ tcs' = [tcs EXCEPT ![f].mod = IF Good(f) THEN disk[f].t ELSE @]
          /\ req' = [req EXCEPT ![r].pc = IF Good(f) THEN "send" ELSE "panic"]
       \/ /\ data.obj # 0 /\ ~NoLonger(f) /\ SameFile(data, f)
          /\ req' = [req EXCEPT ![r].pc = "send"] /\ UNCHANGED <<tcs, objs, signal>>
    /\ UNCHANGED <<disk, link, posts, posted, down, replaced, changes>>

\* The request reads the toolchain when the task is queued or sent, without the lock.
Send(r) ==
    /\ req[r].pc = "send"
    /\ req' = [req EXCEPT ![r].pc = "sent", ![r].obj = 0, ![r].carries = objs[req[r].obj].v,
                          ![r].file = objs[req[r].obj].file, ![r].twice = replaced]
    /\ UNCHANGED <<disk, link, tcs, objs, signal, posts, posted, down, replaced, changes>>

----------------------------------------------------------------------------
(* The process ends, and systemd starts it again (Restart=on-failure). *)

Panic ==
    /\ \E r \in Requests : req[r].pc = "panic"
    /\ down' = TRUE
    /\ UNCHANGED <<disk, link, tcs, objs, req, signal, posts, posted, replaced, changes>>
Respawn ==
    /\ down /\ down' = FALSE /\ tcs' = Filled /\ objs' = FreshObjs
    /\ req' = [r \in Requests |-> IF r \in InFlight THEN [req[r] EXCEPT !.pc = "unavailable", !.obj = 0] ELSE req[r]]
    /\ signal' = FALSE /\ posts' = {} /\ replaced' = FALSE
    /\ UNCHANGED <<disk, link, posted, changes>>

\* postToolchains runs in a goroutine of its own each time it is due: on a signal, and
\* every five seconds.  The periodic one is left out while others are on their way.
Notified ==
    /\ signal /\ signal' = FALSE /\ posts' = posts \cup {ItemsList}
    /\ UNCHANGED <<disk, link, tcs, objs, req, posted, down, replaced, changes>>
PeriodicallyDue == posts = {} /\ posted # ItemsList
postPeriodic ==
    /\ PeriodicallyDue /\ posts' = {ItemsList}
    /\ UNCHANGED <<disk, link, tcs, objs, req, signal, posted, down, replaced, changes>>
postToolchains ==
    /\ \E s \in posts : posted' = s /\ posts' = posts \ {s}
    /\ UNCHANGED <<disk, link, tcs, objs, req, signal, down, replaced, changes>>

TSStep ==
    \/ Respawn
    \/ /\ ~down
       /\ \/ Panic \/ Notified \/ postPeriodic \/ postToolchains
          \/ \E r \in Requests : Find(r) \/ StoreContains(r) \/ Add(r) \/ UpdateIfNeeded(r) \/ Send(r)
TSNext == TSStep \/ Change \/ \E r \in Requests : DispatchAndWait(r)
TSSpec == TSInit /\ [][TSNext]_tsVars /\ WF_tsVars(TSStep)

----------------------------------------------------------------------------
(* Properties. *)

\* A request carries what its compiler was at some time while it was handled, though
\* other requests may update the toolchain it points to (server.go:173, store.go:183).
\* The exception: a request had found a toolchain of the compiler and was to update it
\* when another added the compiler once more, as two requests that miss it together do;
\* the update of the one object then sets the modification time of the other.
CarriesItsCompiler ==
    \A r \in Requests :
       req[r].pc = "sent" => \/ \E x \in req[r].saw : x.file = req[r].file /\ x.v = req[r].carries
                             \/ req[r].twice

\* A request is refused only when a compiler was unusable while it was handled, when
\* another request was adding the same compiler, or when the link was changed between
\* Find and Add (store.go:121); the process ends only for a compiler that was unusable.
Unusable(r) == \E x \in req[r].saw : x.v \notin FileVersions
Relinked(r) == \E x, y \in req[r].saw : x.link # y.link
RefusedWithCause ==
    \A r \in Requests :
       /\ req[r].pc \in {"invalid", "panic"} => Unusable(r)
       /\ req[r].pc = "exists" => Relinked(r) \/ \E q \in Requests \ {r} : req[q].file = req[r].file

\* The store gives a request the toolchain of its compiler, or a reason not to: a
\* compiler that is unusable, moved, or added by two requests at once (store.go:183-215).
StoreSound == CarriesItsCompiler /\ RefusedWithCause

\* Every request is answered, if only because the process ended, and the monitor ends
\* up with the toolchains the store has: lists may arrive in the wrong order, but the
\* periodic one corrects that (server.go:173, 258-268).
PostedSettled == posted = ItemsList /\ \A r \in Requests : req[r].pc \notin Handling
=============================================================================
