--------------------------- MODULE RequestClient ----------------------------
(* clients.CompileRequestClient (pkg/clients/scheduler.go) on the stream that *)
(* consumerd's StreamManager keeps to the scheduler: calls of Compile, the    *)
(* receive worker that matches responses to calls, and the server's           *)
(* HandleStream that loads every new stream into the client.                  *)
EXTENDS StreamManager

CONSTANTS Calls   \* calls of Compile, each with a RequestID of its own

VARIABLES stream,   \* rc.stream: the number of a stream, or 0 for nil
          call,     \* each Compile: "new", "sent", "waiting" and its results
          sentOn,   \* the stream the request went out on
          pending,  \* keys of rc.pending
          flight,   \* responses the scheduler has sent on the latest stream
          missed,   \* calls that no response or error of their stream will find
          recv,     \* recvWorker: "idle", "recv", "drain" or "reset"
          recvOn,   \* the stream whose Recv it is blocked in
          todo,     \* calls its Range has yet to visit
          panicked  \* it sent on a closed channel

rcVars == <<stream, call, sentOn, pending, flight, missed, recv, recvOn, todo, panicked>>
requestClientVars == <<smVars, rcVars>>

Results == {"notReady", "sendError", "ok", "recvError", "canceled"}

RequestTypeOK ==
    /\ SMTypeOK
    /\ stream \in 0 .. MaxGen /\ recvOn \in 0 .. MaxGen
    /\ call \in [Calls -> {"new", "sent", "waiting"} \cup Results]
    /\ sentOn \in [Calls -> 0 .. MaxGen]
    /\ pending \cup flight \cup missed \cup todo \subseteq Calls
    /\ recv \in {"idle", "recv", "drain", "reset"} /\ panicked \in BOOLEAN
    /\ todo \subseteq pending /\ (recv # "drain" => todo = {})

RequestInit ==
    /\ SMInit
    /\ stream = 0 /\ recvOn = 0 /\ recv = "idle" /\ panicked = FALSE
    /\ call = [c \in Calls |-> "new"] /\ sentOn = [c \in Calls |-> 0]
    /\ pending = {} /\ flight = {} /\ missed = {} /\ todo = {}

----------------------------------------------------------------------------
\* consumerdServer.HandleStream: LoadNewStream, then wait for either context.
LoadNewStream ==
    /\ sm = "load"
    /\ stream' = gen /\ sm' = "handle"
    /\ flight' = {}
    /\ UNCHANGED <<cond, gen, alive, remote, outages, ctxDone, call, sentOn,
                   pending, missed, recv, recvOn, todo, panicked>>

\* Compile under streamLock: no stream, or a Send that fails, or a request sent.
CompileSend(c) ==
    /\ call[c] = "new"
    /\ call' = [call EXCEPT ![c] = IF stream = 0 THEN "notReady"
                  ELSE IF stream = gen /\ alive THEN "sent" ELSE "sendError"]
    /\ sentOn' = [sentOn EXCEPT ![c] = stream]
    /\ UNCHANGED <<smVars, stream, pending, flight, missed, recv, recvOn, todo, panicked>>

\* pending.Store, after the lock is released.
CompileStore(c) ==
    /\ call[c] = "sent"
    /\ call' = [call EXCEPT ![c] = "waiting"]
    /\ pending' = pending \cup {c}
    /\ UNCHANGED <<smVars, stream, sentOn, flight, missed, recv, recvOn, todo, panicked>>

CanceledByContext == ctxDone
\* The context ends the wait; the deferred close leaves a closed channel in
\* pending.
CompileCanceled(c) ==
    /\ call[c] = "waiting" /\ CanceledByContext
    /\ call' = [call EXCEPT ![c] = "canceled"]
    /\ UNCHANGED <<smVars, stream, sentOn, pending, flight, missed, recv, recvOn, todo, panicked>>

\* The scheduler answers a request on the stream it came from.
SchedulerAnswers(c) ==
    /\ call[c] \in {"sent", "waiting"} /\ c \notin flight \cup missed
    /\ sentOn[c] = gen /\ alive
    /\ flight' = flight \cup {c}
    /\ UNCHANGED <<smVars, stream, call, sentOn, pending, missed, recv, recvOn, todo, panicked>>

----------------------------------------------------------------------------
(* recvWorker. *)

\* It reads rc.stream for the next Recv; from then on it cannot see how an
\* earlier stream ends.
Unanswered(c) == call[c] \in {"sent", "waiting"}
RecvOn(s) == recvOn' = s /\ missed' = missed \cup {c \in Calls : Unanswered(c) /\ sentOn[c] < s}

\* It leaves the wait on the condition variable.
RecvStarts ==
    /\ recv = "idle" /\ stream # 0
    /\ recv' = "recv" /\ RecvOn(stream)
    /\ UNCHANGED <<smVars, stream, call, sentOn, pending, flight, todo, panicked>>

\* The unbuffered send to the call's channel.
Deliver(c, r) ==
    /\ call' = IF call[c] = "waiting" THEN [call EXCEPT ![c] = r] ELSE call
    /\ panicked' = (call[c] = "canceled")

Taken(c) == pending \ {c}                                \* LoadAndDelete

\* A response: the call that stored its channel gets it, any other is dropped.
Recv(c) ==
    /\ recv = "recv" /\ ~panicked /\ recvOn = gen /\ c \in flight
    /\ flight' = flight \ {c}
    /\ IF c \in pending
       THEN Deliver(c, "ok") /\ pending' = Taken(c) /\ UNCHANGED missed
       ELSE missed' = missed \cup {c} /\ UNCHANGED <<call, pending, panicked>>
    /\ UNCHANGED <<smVars, stream, sentOn, recv, recvOn, todo>>

RecvNext ==
    /\ recv = "recv" /\ ~panicked /\ recvOn # stream
    /\ RecvOn(stream)
    /\ UNCHANGED <<smVars, stream, call, sentOn, pending, flight, recv, todo, panicked>>

NoneToFail == {}                                         \* mutant of ToFail
ToFail == pending

\* An error: every pending call is to get it; a call that has been sent but not
\* stored will not.
RecvFails ==
    /\ recv = "recv" /\ ~panicked /\ (recvOn # gen \/ ~alive)
    /\ recv' = "drain" /\ todo' = ToFail
    /\ missed' = missed \cup {c \in Calls : call[c] = "sent" /\ sentOn[c] <= recvOn}
    /\ UNCHANGED <<smVars, stream, call, sentOn, pending, flight, recvOn, panicked>>

Unvisited(c) == todo \ {c}

\* One step of the Range; it may also visit a call stored meanwhile.
Drain(c) ==
    /\ recv = "drain" /\ ~panicked /\ c \in pending
    /\ Deliver(c, "recvError")
    /\ pending' = pending \ {c} /\ todo' = Unvisited(c)
    /\ UNCHANGED <<smVars, stream, sentOn, flight, missed, recv, recvOn>>

DrainEnds ==
    /\ recv = "drain" /\ ~panicked /\ todo = {}
    /\ recv' = "reset"
    /\ UNCHANGED <<smVars, stream, call, sentOn, pending, flight, missed, recvOn, todo, panicked>>

\* stream = nil, whichever stream is there by now; nobody reads it then.
ResetStream ==
    /\ recv = "reset"
    /\ recv' = "idle" /\ stream' = 0
    /\ missed' = missed \cup {c \in Calls : Unanswered(c) /\ sentOn[c] > recvOn}
    /\ UNCHANGED <<smVars, call, sentOn, pending, flight, recvOn, todo, panicked>>

----------------------------------------------------------------------------
RequestStep ==
    \/ SMStep /\ UNCHANGED rcVars
    \/ LoadNewStream \/ RecvStarts \/ RecvNext \/ RecvFails \/ DrainEnds \/ ResetStream
    \/ \E c \in Calls : \/ CompileStore(c) \/ CompileCanceled(c)
                        \/ SchedulerAnswers(c) \/ Recv(c) \/ Drain(c)

RequestNext ==
    \/ RequestStep
    \/ SMEnvironment /\ UNCHANGED rcVars
    \/ \E c \in Calls : CompileSend(c)

\* Goroutines run, the scheduler answers what it still can.  Within the bounds
\* no behaviour takes these steps forever.
RequestSpec == RequestInit /\ [][RequestNext]_requestClientVars /\ WF_requestClientVars(RequestStep)

----------------------------------------------------------------------------
\* Compile has returned, unless its response or its stream's error came before the
\* call had stored its channel, its stream was replaced before the worker read
\* it or dropped by the worker's reset, or the worker died of a send to a closed
\* channel.
CompileReturned == \A c \in Calls : Unanswered(c) => c \in missed \/ panicked

\* Every call of Compile returns but for those exceptions, so that no response and
\* no error is lost in any other way (scheduler.go:84-138), and while the scheduler
\* stays reachable the client gets a stream again (stream.go:202).
RequestsSettled == CompileReturned /\ Reconnected

\* A channel waits in pending only for a call that can still use it or was
\* canceled, and each call that waits has one, so that a response is delivered
\* once and to a call that has not returned.
PendingAreWaiting ==
    /\ \A c \in pending : call[c] \in {"waiting", "canceled"}
    /\ \A c \in Calls : call[c] = "waiting" => c \in pending

\* The receive worker panics only while the process is being stopped.
PanicOnlyOnShutdown == panicked => ctxDone
=============================================================================
