---------------------------- MODULE LocalStorage ----------------------------
(* LocalStorageProvider (pkg/storage/local.go): objects as files, the          *)
(* ExpirationNotifier with its binary heap and its Monitor goroutine, the      *)
(* goroutine that deletes what the notifier names and the one that frees       *)
(* space.  The process may be restarted; only the files survive.  File system  *)
(* errors other than a missing file are left out.                              *)
EXTENDS Integers, Sequences, FiniteSets

CONSTANTS NumHashes,     \* objects, numbered in the order of their first Put
          MaxPuts,       \* bound: calls of Put, numbered in the order they start
          Dates,         \* expiration dates
          MaxTime,       \* bound: the clock
          DataSize,      \* len(object.Data)
          FileSize,      \* size of the file, which also holds the metadata
          SizeLimit,
          MaxRestarts,   \* bound: restarts of the process
          MaxEvictions   \* bound: times a minute passes with the limit exceeded

VARIABLES now,
          file,      \* each hash's file: None, Torn (being written) or its date
          objects, total,        \* numObjects, totalSize
          heap,      \* ExpirationHeap.heap
          put,       \* each Put: "new", "write", "push", "peek", "len" or "done"
          what,      \* its hash and date
          mon,       \* Monitor: "scan", "wait" (in WaitOne's select) or "sleep"
          waiting,   \* the entry WaitOne has peeked
          rescan, add,           \* rescanChan and addChan hold a token
          expired,   \* expirationChan
          evict,     \* DeleteObjectsClosestToExpiration: "idle", "force", "poll"
          victim,    \* the hash it has peeked
          skipped,   \* hashes popped from the heap but not announced
          restarts, evictions

localVars == <<now, file, objects, total, heap, put, what, mon, waiting, rescan, add,
               expired, evict, victim, skipped, restarts, evictions>>

Putters == 1 .. MaxPuts
Hashes == 1 .. NumHashes
NoHash == 0
None == -1
Torn == -2
Entry == [hash : Hashes, date : Dates]
Nobody == [hash |-> NoHash, date |-> 0]

LocalTypeOK ==
    /\ now \in 0 .. MaxTime /\ file \in [Hashes -> {None, Torn} \cup Dates]
    /\ objects \in Int /\ total \in Int
    /\ heap \in Seq(Entry) /\ expired \in Seq(Hashes)
    /\ put \in [Putters -> {"new", "write", "push", "peek", "len", "done"}]
    /\ what \in [Putters -> Entry \cup {Nobody}] /\ waiting \in Entry \cup {Nobody}
    /\ mon \in {"scan", "wait", "sleep"} /\ {rescan, add} \subseteq BOOLEAN
    /\ evict \in {"idle", "force", "poll", "panic"} /\ victim \in Hashes \cup {NoHash}
    /\ skipped \subseteq Hashes

\* NewLocalStorageProvider and Configure on an empty directory.
LocalInit ==
    /\ now = 0 /\ file = [h \in Hashes |-> None] /\ objects = 0 /\ total = 0
    /\ heap = <<>> /\ expired = <<>> /\ mon = "scan" /\ waiting = Nobody
    /\ put = [q \in Putters |-> "new"] /\ what = [q \in Putters |-> Nobody]
    /\ rescan = FALSE /\ add = FALSE /\ evict = "idle" /\ victim = NoHash
    /\ skipped = {} /\ restarts = 0 /\ evictions = 0

----------------------------------------------------------------------------
(* The heap, an array from 1 instead of 0. *)

Swap(h, i, j) == [h EXCEPT ![i] = h[j], ![j] = h[i]]

RECURSIVE SiftDown(_, _)
SiftDown(h, i) ==
    LET before(a, b) == a <= Len(h) /\ h[a].date < h[b].date
        l == IF before(2 * i, i) THEN 2 * i ELSE i
        m == IF before(2 * i + 1, l) THEN 2 * i + 1 ELSE l
    IN IF m = i THEN h ELSE SiftDown(Swap(h, m, i), m)

RECURSIVE HeapifyFrom(_, _)
HeapifyFrom(h, i) == IF i = 0 THEN h ELSE HeapifyFrom(SiftDown(h, i), i - 1)
Parents(n) == (n \div 2) + 1
Heapify(h) == HeapifyFrom(h, Parents(Len(h)))

HeapPush(h, e) == Heapify(Swap(Append(h, e), Len(h) + 1, 1))
HeapPeek(h) == IF h = <<>> THEN Nobody ELSE h[1]
HeapPop(h) == IF h = <<>> THEN h
          ELSE Heapify(SubSeq([h EXCEPT ![1] = h[Len(h)]], 1, Len(h) - 1))

----------------------------------------------------------------------------
(* Put: the file, the counters, and the steps of ExpirationNotifier.Add. *)

PutStart(q, h, d) ==
    /\ put[q] = "new" /\ (q > 1 => put[q - 1] # "new")
    /\ h = 1 \/ \E p \in 1 .. q - 1 : what[p].hash >= h - 1
    /\ put' = [put EXCEPT ![q] = "write"] /\ what' = [what EXCEPT ![q] = [hash |-> h, date |-> d]]
    /\ file' = [file EXCEPT ![h] = Torn]
    /\ UNCHANGED <<now, objects, total, heap, mon, waiting, rescan, add, expired,
                   evict, victim, skipped, restarts, evictions>>

\* numObjects.Inc
Counted(n) == n + 1

\* WriteFile is done; a file that was deleted meanwhile stays deleted.
PutWrite(q) ==
    /\ put[q] = "write"
    /\ put' = [put EXCEPT ![q] = "push"]
    /\ file' = [file EXCEPT ![what[q].hash] = IF @ = None THEN None ELSE what[q].date]
    /\ objects' = Counted(objects) /\ total' = total + DataSize
    /\ UNCHANGED <<now, heap, what, mon, waiting, rescan, add, expired, evict, victim,
                   skipped, restarts, evictions>>

AddPush(q) ==
    /\ put[q] = "push"
    /\ put' = [put EXCEPT ![q] = "peek"]
    /\ heap' = HeapPush(heap, what[q])
    /\ UNCHANGED <<now, file, objects, total, what, mon, waiting, rescan, add, expired,
                   evict, victim, skipped, restarts, evictions>>

\* The new object is the next to expire: tell the waiter.
AddRescan(q) ==
    /\ put[q] = "peek"
    /\ put' = [put EXCEPT ![q] = "len"]
    /\ rescan' = (rescan \/ HeapPeek(heap).hash = what[q].hash)
    /\ UNCHANGED <<now, file, objects, total, heap, what, mon, waiting, add, expired,
                   evict, victim, skipped, restarts, evictions>>

\* It is the only one: wake the waiter.
NeverWake == FALSE                                       \* mutant of FirstInHeap
FirstInHeap == Len(heap) = 1
AddWake(q) ==
    /\ put[q] = "len"
    /\ put' = [put EXCEPT ![q] = "done"]
    /\ add' = (add \/ FirstInHeap)
    /\ UNCHANGED <<now, file, objects, total, heap, what, mon, waiting, rescan, expired,
                   evict, victim, skipped, restarts, evictions>>

----------------------------------------------------------------------------
(* Monitor, WaitAll and WaitOne. *)

Scan ==
    /\ mon = "scan"
    /\ mon' = IF heap = <<>> THEN "sleep" ELSE "wait"
    /\ waiting' = HeapPeek(heap)
    /\ UNCHANGED <<now, file, objects, total, heap, put, what, rescan, add, expired,
                   evict, victim, skipped, restarts, evictions>>

Woken ==
    /\ mon = "sleep" /\ add
    /\ mon' = "scan" /\ add' = FALSE
    /\ UNCHANGED <<now, file, objects, total, heap, put, what, waiting, rescan, expired,
                   evict, victim, skipped, restarts, evictions>>

Rescan ==
    /\ mon = "wait" /\ rescan
    /\ mon' = "scan" /\ rescan' = FALSE
    /\ UNCHANGED <<now, file, objects, total, heap, put, what, waiting, add, expired,
                   evict, victim, skipped, restarts, evictions>>

\* The top of the heap is popped and the hash peeked earlier is announced; they
\* differ when an earlier object has just been pushed.
Announce ==
    /\ mon = "wait" /\ mon' = "scan"
    /\ heap' = HeapPop(heap) /\ expired' = Append(expired, waiting.hash)
    /\ skipped' = skipped \cup ({HeapPeek(heap).hash} \ {waiting.hash})

TimerFires ==
    /\ waiting.date <= now /\ Announce
    /\ UNCHANGED <<now, file, objects, total, put, what, waiting, rescan, add,
                   evict, victim, restarts, evictions>>

\* The goroutine of Configure that deletes expired objects.
DeleteExpired ==
    LET h == Head(expired) IN
    /\ expired # <<>> /\ expired' = Tail(expired)
    /\ file' = [file EXCEPT ![h] = None]
    /\ objects' = IF file[h] = None THEN objects ELSE objects - 1
    /\ total' = IF file[h] = None THEN total ELSE total - FileSize
    /\ UNCHANGED <<now, heap, put, what, mon, waiting, rescan, add, evict, victim,
                   skipped, restarts, evictions>>

----------------------------------------------------------------------------
(* DeleteObjectsClosestToExpiration. *)

\* Once a minute, and at the head of the loop: is the size at 90% of the limit?
EvictNext(first) ==
    IF first THEN total > SizeLimit ELSE 10 * total >= 9 * SizeLimit
EvictPeek(goes) ==
    /\ evict' = IF goes THEN "force" ELSE "idle"
    /\ victim' = IF goes THEN HeapPeek(heap).hash ELSE NoHash

EvictStart ==
    /\ evict = "idle" /\ EvictNext(TRUE) /\ evictions < MaxEvictions
    /\ EvictPeek(TRUE) /\ evictions' = evictions + 1
    /\ UNCHANGED <<now, file, objects, total, heap, put, what, mon, waiting, rescan, add,
                   expired, skipped, restarts>>

\* ForceExpiration meets WaitOne's select.
ForceExpiration ==
    /\ evict = "force" /\ Announce
    /\ evict' = "poll"
    /\ UNCHANGED <<now, file, objects, total, put, what, waiting, rescan, add, victim,
                   restarts, evictions>>

\* Get finds the file; it may, or may not, decode one that is being written.
Found(h) == h # NoHash /\ file[h] # None
NotFoundBy(h) == h \in Hashes => file[h] \in {None, Torn}

\* Nobody takes it within a second, or the object stays for two: give up.  Only
\* a notifier that is not waiting makes the first timer expire.
EvictGivesUp ==
    /\ \/ evict = "force" /\ mon # "wait"
       \/ evict = "poll" /\ Found(victim)
    /\ evict' = "idle" /\ victim' = NoHash
    /\ UNCHANGED <<now, file, objects, total, heap, put, what, mon, waiting, rescan, add,
                   expired, skipped, restarts, evictions>>

\* Get no longer finds the object: the loop goes on.  The empty hash that HeapPeek
\* returned for an empty heap makes Get panic.
EvictPoll ==
    /\ evict = "poll" /\ NotFoundBy(victim)
    /\ IF victim = NoHash THEN evict' = "panic" /\ victim' = victim
                          ELSE EvictPeek(EvictNext(FALSE))
    /\ UNCHANGED <<now, file, objects, total, heap, put, what, mon, waiting, rescan, add,
                   expired, skipped, restarts, evictions>>

----------------------------------------------------------------------------
Tick ==
    /\ now < MaxTime /\ now' = now + 1
    /\ UNCHANGED <<file, objects, total, heap, put, what, mon, waiting, rescan, add,
                   expired, evict, victim, skipped, restarts, evictions>>

\* The process stops and Configure runs again: every file is counted and added
\* to the notifier, except that one that does not decode is counted and deleted.
RECURSIVE PushAll(_, _)
PushAll(hp, S) ==
    IF S = {} THEN hp
    ELSE LET h == CHOOSE x \in S : TRUE IN
         PushAll(HeapPush(hp, [hash |-> h, date |-> file[h]]), S \ {h})
Decodes(h) == file[h] # Torn
Forget(S) == <<>>                                        \* mutant of Readd
Readd(S) == PushAll(<<>>, S)
Restart ==
    LET found == {h \in Hashes : file[h] # None}
        good == {h \in found : Decodes(h)} IN
    /\ restarts < MaxRestarts /\ restarts' = restarts + 1
    /\ file' = [h \in Hashes |-> IF h \in good THEN file[h] ELSE None]
    /\ objects' = Cardinality(found) /\ total' = FileSize * Cardinality(found)
    /\ heap' = Readd(good) /\ add' = (good # {}) /\ rescan' = (good # {})
    /\ put' = [q \in Putters |-> IF put[q] = "new" THEN "new" ELSE "done"]
    /\ mon' = "scan" /\ waiting' = Nobody /\ expired' = <<>>
    /\ evict' = "idle" /\ victim' = NoHash /\ skipped' = {}
    /\ UNCHANGED <<now, what, evictions>>

----------------------------------------------------------------------------
Running == evict # "panic"
LocalStep ==
    \/ \E q \in Putters : PutWrite(q) \/ AddPush(q) \/ AddRescan(q) \/ AddWake(q)
    \/ Scan \/ Woken \/ Rescan \/ TimerFires \/ DeleteExpired
    \/ ForceExpiration \/ EvictGivesUp \/ EvictPoll

LocalNext ==
    \/ Running /\ (LocalStep \/ Tick \/ EvictStart)
    \/ Running /\ \E q \in Putters, h \in Hashes, d \in Dates : PutStart(q, h, d)
    \/ Restart

LocalSpec == LocalInit /\ [][LocalNext]_localVars /\ WF_localVars(Running /\ LocalStep)

----------------------------------------------------------------------------
\* The array the code keeps is a heap after every HeapPush and HeapPop, in whatever order
\* objects come and expire, so that HeapPeek finds an object that expires first.
HeapOrdered == \A i \in 2 .. Len(heap) : heap[i \div 2].date <= heap[i].date

\* Every complete object will be deleted some day: the notifier has it in its
\* heap or in its channel, or a Put is about to add it.  The exception is an
\* object popped in place of the one announced, or deleted by an earlier entry
\* for the same hash while it was being written.
EveryObjectTracked ==
    \A h \in Hashes : file[h] \notin {None, Torn} =>
        \/ \E i \in 1 .. Len(heap) : heap[i].hash = h
        \/ \E i \in 1 .. Len(expired) : expired[i] = h
        \/ \E q \in Putters : put[q] = "push" /\ what[q].hash = h
        \/ h \in skipped

\* Monitor sleeps although there are objects, and no token will wake it: two
\* calls of Add have both pushed before either looked at the heap's length.
Asleep == mon = "sleep" /\ Len(heap) > 1 /\ ~add /\ \A q \in Putters : put[q] # "len"

\* An object whose date has passed is deleted in the end, unless Monitor was left
\* asleep or announced another object in its place (local.go:135-158, 481-493).
DiskSettled ==
    \A h \in Hashes, d \in Dates :
        file[h] = d /\ d <= now => Asleep \/ h \in skipped \/ evict = "panic"

\* The object count never falls short of the files on disk, whatever is
\* overwritten, expires, or is found torn after a restart.
CountCoversDisk ==
    Cardinality({h \in Hashes : file[h] \notin {None, Torn}}) <= objects

\* What the local storage knows of the disk is right: the heap is one, every object
\* is tracked, and none is left out of the count (local.go:104-158, 266, 535).
DiskSound == HeapOrdered /\ EveryObjectTracked /\ CountCoversDisk
=============================================================================
