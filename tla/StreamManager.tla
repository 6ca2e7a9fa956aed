--------------------------- MODULE StreamManager ----------------------------
(* clients.StreamManager (pkg/clients/stream.go): connect, hand the stream to *)
(* its handler, back off and reconnect, and keep a status condition applied   *)
(* while there is no stream.  The handler's HandleStream is a phase that      *)
(* starts with the handler's own step (see the modules that extend this one)  *)
(* and ends when the stream's context, or the server's, is done.              *)
EXTENDS Naturals

CONSTANTS MaxGen,     \* bound: connections made
          MaxOutages  \* bound: times the remote goes away

VARIABLES sm,       \* Run: "connect", "load" (HandleStream called), "handle",
                    \* "backoff" or "done"
          cond,     \* the condition of applyCondition is in force
          gen,      \* number of the latest stream
          alive,    \* that stream has not failed
          remote,   \* the remote accepts connections
          outages,
          ctxDone   \* the server's context is canceled

smVars == <<sm, cond, gen, alive, remote, outages, ctxDone>>

SMTypeOK ==
    /\ sm \in {"connect", "load", "handle", "backoff", "done"}
    /\ gen \in 0 .. MaxGen /\ outages \in 0 .. MaxOutages
    /\ {cond, alive, remote, ctxDone} \subseteq BOOLEAN

SMInit ==
    /\ sm = "connect" /\ cond = TRUE /\ gen = 0 /\ alive = FALSE
    /\ remote = FALSE /\ outages = 0 /\ ctxDone = FALSE

\* The tail of both branches of Run: when the context is canceled Run returns
\* and its deferred call clears the condition; otherwise applyCondition, unless
\* the condition is still in force, and the wait.
KeepCondition == IF ctxDone THEN FALSE ELSE cond         \* mutant of Reapply
Reapply == ~ctxDone
GiveUpOrRetry ==
    /\ sm' = IF ctxDone THEN "done" ELSE "backoff"
    /\ cond' = Reapply

TryConnectFails ==
    /\ sm = "connect" /\ (~remote \/ ctxDone)
    /\ GiveUpOrRetry
    /\ UNCHANGED <<gen, alive, remote, outages, ctxDone>>

TryConnect ==
    /\ sm = "connect" /\ remote /\ ~ctxDone
    /\ sm' = "load" /\ cond' = FALSE
    /\ gen' = gen + 1 /\ alive' = TRUE
    /\ UNCHANGED <<remote, outages, ctxDone>>

\* HandleStream returns the error of the stream's context or of the server's.
HandleStreamEnds ==
    /\ sm = "handle" /\ (~alive \/ ctxDone)
    /\ GiveUpOrRetry
    /\ UNCHANGED <<gen, alive, remote, outages, ctxDone>>

\* waitBackoff: the timer, TryImmediately or the context ends the wait.  The
\* attempts that fail because nothing has changed are left out.
BackoffEnds == ctxDone \/ (remote /\ gen < MaxGen)
WaitBackoff ==
    /\ sm = "backoff" /\ BackoffEnds
    /\ sm' = "connect"
    /\ UNCHANGED <<cond, gen, alive, remote, outages, ctxDone>>

----------------------------------------------------------------------------
\* The remote starts; it stops, and the stream fails; the stream alone fails;
\* the process is told to stop.
RemoteStarts ==
    /\ ~remote
    /\ remote' = TRUE
    /\ UNCHANGED <<sm, cond, gen, alive, outages, ctxDone>>

StreamFails ==
    /\ alive /\ outages < MaxOutages
    /\ outages' = outages + 1 /\ alive' = FALSE
    /\ remote' \in BOOLEAN
    /\ UNCHANGED <<sm, cond, gen, ctxDone>>

Shutdown ==
    /\ ~ctxDone
    /\ ctxDone' = TRUE
    /\ UNCHANGED <<sm, cond, gen, alive, remote, outages>>

SMStep == TryConnectFails \/ TryConnect \/ HandleStreamEnds \/ WaitBackoff
SMEnvironment == RemoteStarts \/ StreamFails \/ Shutdown

----------------------------------------------------------------------------
\* The component's health says that it lacks its remote exactly while Run has
\* no stream to handle, through every failed attempt and reconnection, and the
\* condition does not outlive Run.
ConditionMatchesStream == cond <=> sm \in {"connect", "backoff"}

\* Run has a stream, or cannot have one.
Reconnected == sm \in {"load", "handle"} \/ ~remote \/ ctxDone \/ gen = MaxGen
=============================================================================
