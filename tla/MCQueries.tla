------------------------------- MODULE MCQueries -------------------------------
(***************************************************************************)
(* Readers of a cluster of two racks with a link, two failure domains of   *)
(* one class and a capacity domain.                                        *)
(***************************************************************************)
EXTENDS Queries, MCEngine, Sequences

CONSTANTS d3, l1, bytes, slots

QueryKinds == (d1 :> "failure") @@ (d2 :> "failure") @@ (d3 :> "capacity")

Awaiting == [Fresh EXCEPT !.freshness = "RevalidationRequired"]

QueryDomains ==
    {[generation |-> 1, klass |-> k1, racks |-> x[1], evidence |-> x[2]] :
        x \in {<<{r1}, Fresh>>, <<{r2}, Fresh>>, <<{r1, r2}, Fresh>>, <<{r1, r2}, Awaiting>>}}

Amount(unit, value, provenance) ==
    [unit |-> unit, value |-> value, aggregated |-> FALSE, provenance |-> provenance]

QueryQuantities ==
    [d \in {d1, d2, d3} |->
        IF d = d3 THEN <<Amount(bytes, 1, "Measured"), Amount(bytes, 2, "Measured"),
                         Amount(slots, NoValue, "Measured")>>
        ELSE <<>>]

QueryLinks ==
    {[generation |-> g, source |-> x[1], destination |-> x[2], domains |-> {}, boot |-> b1,
      reachability |-> "Reachable", evidence |-> Fresh, topology_epoch |-> g] :
        g \in 1 .. 2, x \in {<<r1, r2>>, <<r2, r1>>}}

(* Health reports say the opposite of the publications. *)
QueryRackRequests ==
    {[Request(ce, b1, 1, Fresh, 0) EXCEPT !.reachability = "Unreachable"] : ce \in 2 .. 3}

QuerySymmetry == Permutations({d1, d2}) \cup Permutations({r1, r2})
=============================================================================
