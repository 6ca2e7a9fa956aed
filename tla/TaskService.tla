---------------------------- MODULE TaskService -----------------------------
(***************************************************************************)
(* What the scheduler promises a consumerd that streams compile requests   *)
(* to it (Scheduler.StreamOutgoingTasks): every request it accepts is      *)
(* answered at most once, with Success only if the translation unit has    *)
(* really been compiled, and an answer is never taken back.  Nothing here  *)
(* speaks of agents, routes, tables or a cache.                            *)
(***************************************************************************)
CONSTANTS Requests, Keys, KeyOf, AllResults

VARIABLES
  status,    \* [Requests -> {"new", "accepted", "answered"}]
  reply,     \* [Requests -> AllResults \cup {"none"}]
  compiled   \* keys compiled so far

serviceVars == <<status, reply, compiled>>

ServiceInit ==
  /\ status = [r \in Requests |-> "new"]
  /\ reply = [r \in Requests |-> "none"]
  /\ compiled = {}

\* StreamOutgoingTasks receives a request.
Accept(r) ==
  /\ status[r] = "new"
  /\ status' = [status EXCEPT ![r] = "accepted"]
  /\ UNCHANGED <<reply, compiled>>

\* Somewhere an agent compiles a translation unit some request asks for.
Compile(k) ==
  /\ \E r \in Requests : KeyOf[r] = k /\ status[r] # "new"
  /\ compiled' = compiled \cup {k}
  /\ UNCHANGED <<status, reply>>

\* The one response for r is written to the consumerd's stream.
Answer(r, result) ==
  /\ status[r] = "accepted"
  /\ result = "Success" => KeyOf[r] \in compiled
  /\ status' = [status EXCEPT ![r] = "answered"]
  /\ reply' = [reply EXCEPT ![r] = result]
  /\ UNCHANGED compiled

ServiceNext ==
  \/ \E r \in Requests : Accept(r) \/ \E result \in AllResults : Answer(r, result)
  \/ \E k \in Keys : Compile(k)

ServiceSpec == ServiceInit /\ [][ServiceNext]_serviceVars
=============================================================================
