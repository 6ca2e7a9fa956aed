------------------------------ MODULE MCBroker ------------------------------
(* Instances of Broker for TLC. *)
EXTENDS Broker, TLC

CONSTANTS r1, r2, c1, c2, a1, a2, t1, t2, k1

\* One consumerd sends both requests, which are the same translation unit;
\* two agents have the toolchain.
MCOwner == (r1 :> c1) @@ (r2 :> c1)
MCTcOf == (r1 :> t1) @@ (r2 :> t1)
MCKeyOf == (r1 :> k1) @@ (r2 :> k1)
MCUuidOf == (a1 :> "u1") @@ (a2 :> "u2")
MCAgentTcs == (a1 :> {t1}) @@ (a2 :> {t1})

\* Streams a1 and a2 belong to one agent that reconnects.
MCSameUuid == (a1 :> "u1") @@ (a2 :> "u1")

\* Two consumerds; the second request has no toolchain, or one of the agents
\* does not have the toolchain.
MCTwoOwners == (r1 :> c1) @@ (r2 :> c2)
MCNilTc == (r1 :> t1) @@ (r2 :> NoTc)
MCMixedAgents == (a1 :> {t1, t2}) @@ (a2 :> {t2})

\* The requests are interchangeable where MCOwner, MCTcOf and MCKeyOf are used.
RequestSymmetry == Permutations({r1, r2})
=============================================================================
