-------------------------------- MODULE MCAgent --------------------------------
(***************************************************************************)
(* Instances of the rack agents for TLC.                                   *)
(***************************************************************************)
EXTENDS RackAgent, MCEngine

(* Two incarnations that speak for the same rack, one after the other or   *)
(* at once.                                                                *)
SameRack == [b \in Boots |-> r1]

(* One configured domain, published after the rack. *)
OneDomain == <<[domain |-> d1, payload |->
                  [generation |-> 1, klass |-> k1, racks |-> {r1}, evidence |-> Fresh]]>>

(* The first incarnation makes every call, the one that takes over only    *)
(* publishes.                                                              *)
Calling ==
    (b1 :> {"publish", "supersede", "revalidate", "heartbeat", "query"}) @@ (b2 :> {"publish"})
AgentDomains == d1 :> "placement"

(* The two incarnations fit the list of fenced ones a load admits. *)
ASSUME AgentsAssumption == FencesFit
=============================================================================
