------------------------------ MODULE Storage ------------------------------
(* The cache server (pkg/cachesrv/server.go) over a chain of two providers     *)
(* (pkg/storage/chain.go): memory (volatile.go, on a ccache) in front of S3    *)
(* (s3.go).  Keys are hashes of contents, so an object is told apart only by   *)
(* the key its bytes belong to and by being whole or cut short.                *)
EXTENDS Integers, FiniteSets

CONSTANTS Keys, Absent,
          NumRequests,  \* bound: calls of Push and Pull, in the order they start
          Dated,        \* keys whose objects have an expiration date
          MaxErrors,    \* bound: S3 requests that fail
          MaxPrunes     \* bound: items ccache drops or times out

\* Absent is no object, and there are finitely many keys to count the objects of.
ASSUME StorageAssumption ==
    IsFiniteSet(Keys) /\ NumRequests \in Nat /\ Absent \notin [of : Keys, whole : BOOLEAN]

VARIABLES mem,      \* the ccache: each key's data, or Absent
          dead,     \* keys whose item in memory has timed out
          size,     \* totalSize, in whole objects
          dying,    \* size of the items removed whose OnDelete has not run yet
          store,    \* keys of the objects in the bucket
          bucket,   \* "absent", "made" or "ruled" (with its lifecycle rule)
          setup,    \* Configure's goroutine: "check", "make", "rule" or "done"
          call,     \* what each request is doing
          reader,   \* the goroutine of S3's Get that reads the object
          buf,      \* bytebufferpool: the bytes in each buffer
          errors, ruleFailed, prunes

memVars == <<mem, dead, size, dying, prunes>>
s3Vars == <<store, bucket, setup, errors, ruleFailed>>
storageVars == <<memVars, s3Vars, call, reader, buf>>

Data == [of : Keys, whole : BOOLEAN]
Whole(k) == [of |-> k, whole |-> TRUE]
Size(d) == IF d # Absent /\ d.whole THEN 1 ELSE 0
Requests == 1 .. NumRequests
Buffers == Requests
IdleCall == [op |-> "none", pc |-> "new", key |-> Absent, buffer |-> 0,
             data |-> Absent, res |-> "none", had |-> FALSE, failed |-> FALSE]

StorageTypeOK ==
    /\ mem \in [Keys -> Data \cup {Absent}] /\ dead \subseteq Keys /\ store \subseteq Keys
    /\ size \in Nat /\ dying \in Nat
    /\ bucket \in {"absent", "made", "ruled"} /\ setup \in {"check", "make", "rule", "done"}
    /\ call \in [Requests -> [op : {"none", "push", "pull"}, had : BOOLEAN,
                 pc : {"new", "set", "upload", "stat", "read", "reply", "fill", "done"},
                 key : Keys \cup {Absent}, buffer : {0} \cup Buffers, failed : BOOLEAN,
                 data : Data \cup {Absent}, res : {"none", "ok", "error", "notfound"}]]
    /\ reader \in [Requests -> BOOLEAN] /\ buf \in [Buffers -> Data \cup {Absent}]

\* NewCacheServer: the chain is configured, S3's goroutine has been started.
StorageInit ==
    /\ mem = [k \in Keys |-> Absent] /\ dead = {} /\ size = 0 /\ dying = 0 /\ prunes = 0
    /\ store = {} /\ bucket = "absent" /\ setup = "check" /\ errors = 0 /\ ruleFailed = FALSE
    /\ call = [c \in Requests |-> IdleCall] /\ reader = [c \in Requests |-> FALSE]
    /\ buf = [b \in Buffers |-> Absent]

NextCall(c) == call[c].pc = "new" /\ (c > 1 => call[c - 1].pc # "new")
Return(c, res, data) == call' = [call EXCEPT ![c].pc = "done", ![c].res = res, ![c].data = data]

----------------------------------------------------------------------------
(* S3: createBucketIfNotExists, retried with a backoff until it succeeds. *)

Fails == errors < MaxErrors /\ errors' = errors + 1

SetupCheck ==
    /\ setup = "check"
    /\ setup' = IF bucket = "absent" THEN "make" ELSE "done"
    /\ UNCHANGED <<memVars, store, bucket, errors, ruleFailed, call, reader, buf>>
SetupMake ==
    /\ setup = "make" /\ setup' = "rule" /\ bucket' = "made"
    /\ UNCHANGED <<memVars, store, errors, ruleFailed, call, reader, buf>>
SetupRule ==
    /\ setup = "rule" /\ setup' = "done" /\ bucket' = "ruled"
    /\ UNCHANGED <<memVars, store, errors, ruleFailed, call, reader, buf>>
Again == "check"
SetupFails ==
    /\ setup # "done" /\ Fails /\ setup' = Again
    /\ ruleFailed' = (ruleFailed \/ setup = "rule")
    /\ UNCHANGED <<memVars, store, bucket, call, reader, buf>>

----------------------------------------------------------------------------
(* Memory.  Items that are replaced, deleted or pruned reach OnDelete later. *)

Expired(k) == mem[k] # Absent /\ k \in dead \cap Dated
Removed(k) == Size(mem[k])
MemSet(k, d) ==
    /\ mem' = [mem EXCEPT ![k] = d] /\ dead' = dead \ {k}
    /\ size' = size + Size(d) /\ dying' = dying + Removed(k)
MemDelete(k) ==
    /\ mem' = [mem EXCEPT ![k] = Absent] /\ dead' = dead \ {k}
    /\ dying' = dying + Removed(k) /\ size' = size

SubTwice == size - 2 * dying                             \* mutant of Sub
Sub == size - dying
OnDelete ==
    /\ dying > 0 /\ size' = Sub /\ dying' = 0
    /\ UNCHANGED <<mem, dead, prunes, s3Vars, call, reader, buf>>
Prune(k) ==
    /\ mem[k] # Absent /\ prunes < MaxPrunes /\ prunes' = prunes + 1 /\ MemDelete(k)
    /\ UNCHANGED <<s3Vars, call, reader, buf>>
TimesOut(k) ==
    /\ mem[k] # Absent /\ k \in Dated \ dead
    /\ prunes < MaxPrunes /\ prunes' = prunes + 1 /\ dead' = dead \cup {k}
    /\ UNCHANGED <<mem, size, dying, s3Vars, call, reader, buf>>

----------------------------------------------------------------------------
(* Push: Put on each provider in turn, up to the first error. *)

Push(c, k) ==
    /\ NextCall(c)
    /\ IF mem[k] # Absent      \* AlreadyExists, even if it has expired
       THEN call' = [call EXCEPT ![c].op = "push", ![c].key = k, ![c].pc = "done", ![c].res = "error"]
       ELSE call' = [call EXCEPT ![c].op = "push", ![c].key = k, ![c].pc = "set", ![c].data = Whole(k)]
    /\ UNCHANGED <<memVars, s3Vars, reader, buf>>

\* A Push goes on to S3; a back-fill is done.
Set(c) ==
    /\ call[c].pc = "set" /\ MemSet(call[c].key, call[c].data)
    /\ call' = [call EXCEPT ![c].pc = IF call[c].op = "push" THEN "upload" ELSE "done"]
    /\ UNCHANGED <<prunes, s3Vars, reader, buf>>

Upload(c) ==
    /\ call[c].pc = "upload" /\ bucket # "absent"
    /\ store' = store \cup {call[c].key} /\ Return(c, "ok", Absent)
    /\ UNCHANGED <<memVars, bucket, setup, errors, ruleFailed, reader, buf>>
Reported == "error"
UploadFails(c) ==
    /\ call[c].pc = "upload"
    /\ \/ bucket = "absent" /\ errors' = errors
       \/ Fails
    /\ Return(c, Reported, Absent)
    /\ UNCHANGED <<memVars, store, bucket, setup, ruleFailed, reader, buf>>

----------------------------------------------------------------------------
(* Pull: Get on each provider in turn, up to the first success. *)

StopAtMiss(c, k) ==                                      \* mutant of NextProvider
    call' = [call EXCEPT ![c].op = "pull", ![c].key = k, ![c].had = k \in store,
                         ![c].pc = "done", ![c].res = "notfound"]
NextProvider(c, k) ==
    call' = [call EXCEPT ![c].op = "pull", ![c].key = k, ![c].had = k \in store, ![c].pc = "stat"]

Pull(c, k) ==
    /\ NextCall(c)
    /\ IF mem[k] # Absent /\ ~Expired(k)
       THEN /\ call' = [call EXCEPT ![c].op = "pull", ![c].key = k,
                                    ![c].pc = "done", ![c].res = "ok", ![c].data = mem[k]]
            /\ dead' = dead \ {k} /\ UNCHANGED <<mem, size, dying>>
       ELSE NextProvider(c, k) /\ IF Expired(k) THEN MemDelete(k)
                                                ELSE UNCHANGED <<mem, dead, size, dying>>
    /\ UNCHANGED <<prunes, s3Vars, reader, buf>>

\* StatObject finds the object: take a buffer of the pool and start reading.
Free(b) == \A c \in Requests : call[c].pc = "read" => call[c].buffer # b
Stat(c) ==
    /\ call[c].pc = "stat" /\ call[c].key \in store
    /\ \E b \in Buffers : Free(b) /\ call' = [call EXCEPT ![c].pc = "read", ![c].buffer = b]
    /\ reader' = [reader EXCEPT ![c] = TRUE]
    /\ UNCHANGED <<memVars, s3Vars, buf>>
NotFound(c) ==
    /\ call[c].pc = "stat"
    /\ \/ call[c].key \notin store /\ Return(c, "notfound", Absent) /\ errors' = errors
       \/ Fails /\ call' = [call EXCEPT ![c].pc = "done", ![c].res = "notfound", ![c].failed = TRUE]
    /\ UNCHANGED <<memVars, store, bucket, setup, ruleFailed, reader, buf>>

\* The goroutine fills the buffer, whoever has it by now.  Get is told that it
\* is done and does not look at the error, and its buffer returns to the pool.
AfterRead == "reply"
Finish(c, whole) ==
    /\ reader[c] /\ reader' = [reader EXCEPT ![c] = FALSE]
    /\ buf' = [buf EXCEPT ![call[c].buffer] = [of |-> call[c].key, whole |-> whole]]
    /\ IF call[c].pc = "read" THEN call' = [call EXCEPT ![c].pc = AfterRead] ELSE UNCHANGED call
    /\ UNCHANGED <<memVars, store, bucket, setup, ruleFailed>>
ReadAll(c) == Finish(c, TRUE) /\ errors' = errors
ReadFails(c) == Finish(c, FALSE) /\ Fails

\* The caller is gone while the object is read.
Cancel(c) ==
    /\ call[c].pc = "read" /\ Return(c, "error", Absent)
    /\ UNCHANGED <<memVars, s3Vars, reader, buf>>

\* The object is cloned for the back-fill and marshalled: its bytes are those in
\* the buffer, which may be another call's by now.
Reply(c) ==
    /\ call[c].pc = "reply"
    /\ call' = [call EXCEPT ![c].pc = "fill", ![c].res = "ok", ![c].data = buf[call[c].buffer]]
    /\ UNCHANGED <<memVars, s3Vars, reader, buf>>

\* The goroutine of the chain's Get puts the object into memory.
BackFill(c) ==
    /\ call[c].pc = "fill"
    /\ call' = [call EXCEPT ![c].pc = IF mem[call[c].key] = Absent THEN "set" ELSE "done"]
    /\ UNCHANGED <<memVars, s3Vars, reader, buf>>

----------------------------------------------------------------------------
\* Query changes state too: memory deletes the items asked for that have expired.
\* (The chain asks provider i, not provider p, about key i, so that a query of one key
\* asks memory only, and one of three keys panics.)
Query(k) ==
    /\ Expired(k) /\ MemDelete(k)
    /\ UNCHANGED <<prunes, s3Vars, call, reader, buf>>

----------------------------------------------------------------------------
StorageWork ==
    \/ SetupCheck \/ SetupMake \/ SetupRule \/ OnDelete
    \/ \E c \in Requests :
         \/ Set(c) \/ Upload(c) \/ UploadFails(c) \/ Stat(c) \/ NotFound(c)
         \/ ReadAll(c) \/ Reply(c) \/ BackFill(c)

StorageNext ==
    \/ StorageWork \/ SetupFails
    \/ \E k \in Keys : Prune(k) \/ TimesOut(k) \/ Query(k)
    \/ \E c \in Requests, k \in Keys : Push(c, k) \/ Pull(c, k)
    \/ \E c \in Requests : ReadFails(c) \/ Cancel(c)

StorageSpec == StorageInit /\ [][StorageNext]_storageVars /\ WF_storageVars(StorageWork)

----------------------------------------------------------------------------
\* totalSize is the size of what is in memory, once OnDelete has run for what was
\* removed: also when a Push and a back-fill, or two of them, have both found no
\* item and set it, and when an item expires or is pruned between two steps.
SizeMatches == size = Cardinality({k \in Keys : Size(mem[k]) = 1}) + dying

\* A Push that returns no error has stored the object in the last provider too.
PushedIsStored ==
    \A c \in Requests : call[c].op = "push" /\ call[c].res = "ok" => call[c].key \in store

\* A Pull of an object that S3 had when the call started says NotFound only if a
\* request to S3 failed, whatever happens meanwhile to the copy in memory.
PullFindsStored ==
    \A c \in Requests : call[c].had /\ call[c].res = "notfound" => call[c].failed

\* The cache server keeps its word over memory and S3: the size it limits is that of
\* the objects in memory, what was pushed is stored, what is stored is found
\* (volatile.go:76, chain.go:74-104).
ChainSound == SizeMatches /\ PushedIsStored /\ PullFindsStored

\* The bucket is there, and has its expiration rule unless setting the rule failed
\* once: the retry finds the bucket and takes the set-up for done.
BucketReady == setup = "done" /\ bucket # "absent" /\ (bucket = "made" => ruleFailed)

\* Every call returns and every back-fill ends, and the set-up goroutine goes on
\* until the bucket is ready (s3.go:80-158, chain.go:87-121).
ChainSettled == BucketReady /\ \A c \in Requests : call[c].pc \in {"new", "done"}

\* "Get should return the keyed object if it exists, or return a relevant error"
\* (provider.go:38): what a successful Pull returns is the whole object of its key.
ServedIsKeyed ==
    \A c \in Requests : call[c].op = "pull" /\ call[c].res = "ok"
                            => call[c].data = Whole(call[c].key)
=============================================================================
