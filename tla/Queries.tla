-------------------------------- MODULE Queries --------------------------------
(***************************************************************************)
(* What a reader of the coordinator sees: the derived indexes, which are   *)
(* rebuilt by the first reader after a commit and shared by the readers    *)
(* after it, and the answers computed from them and from canonical state.  *)
(*                                                                         *)
(* The sorted vectors of an index are sets.  The indexes are held only     *)
(* while they are valid: no reader looks at invalid ones before it has     *)
(* rebuilt them.  Their version number changes exactly when they become    *)
(* invalid, so it is left out.  Of an explanation only the answer it       *)
(* explains is kept.                                                       *)
(***************************************************************************)
EXTENDS CoordinatorEngine

LOCAL INSTANCE Folds

CONSTANTS
    UnknownClass,    \* FailureDomainClass::Unknown
    Bidirectional,   \* the links that are published as bidirectional
    Quantities,      \* DomainIds -> sequence of the quantities it is published with
    Units,
    NoValue,         \* an absent value
    NoIndexes        \* indexes that are not valid

Quantity ==
    [unit : Units, value : Nat \cup {NoValue}, aggregated : BOOLEAN,
     provenance : {"Reported", "Measured", "Synthetic", "Reconstructed"}]

ASSUME QueryAssumption ==
    /\ Bidirectional \subseteq LinkIds
    /\ \A d \in DomainIds : \A i \in DOMAIN Quantities[d] : Quantities[d][i] \in Quantity
    /\ NoValue \notin Nat

VARIABLE indexes

-----------------------------------------------------------------------------
(***************************************************************************)
(* ClusterIndexes.  Storage, power, cooling and link domains have none.    *)
(***************************************************************************)
IndexedKinds == {"placement", "capacity", "failure", "network"}
ClassifiedKinds == {"placement", "failure"}

DomainsOf(kind) == {d \in DomainIds : KindOf[d] = kind /\ HasDomain(d)}

rebuild ==
    [racks_in |-> [d \in DomainIds |->
         IF HasDomain(d) /\ KindOf[d] \in IndexedKinds THEN domains[d].racks ELSE {}],
     domains_of |-> [kind \in IndexedKinds |-> [r \in Racks |->
         {d \in DomainsOf(kind) : r \in domains[d].racks}]],
     by_class |-> [kind \in ClassifiedKinds |-> [k \in Classes |->
         {d \in DomainsOf(kind) : domains[d].klass = k}]],
     links_from |-> [r \in Racks |-> {l \in LinkIds : HasLink(l) /\ links[l].source = r}],
     links_to |-> [r \in Racks |-> {l \in LinkIds : HasLink(l) /\ links[l].destination = r}],
     by_membership |-> [s \in Memberships \ {"Absent"} |->
         {r \in Racks : racks[r].membership = s}],
     by_boot |-> [b \in Boots \cup {NoBoot} |->
         {r \in Racks : has_rack(r) /\ racks[r].boot = b}]]

(* check_indexes looks only at entries canonical state calls for. *)
check_indexes(ix) ==
    /\ \A d \in DomainIds : HasDomain(d) /\ KindOf[d] \in IndexedKinds =>
          ix.racks_in[d] = domains[d].racks
    /\ \A r \in Racks, kind \in {"placement", "failure"} : has_rack(r) =>
          ix.domains_of[kind][r] = {d \in DomainsOf(kind) : r \in domains[d].racks}
    /\ \A l \in LinkIds : HasLink(l) => /\ l \in ix.links_from[links[l].source]
                                        /\ l \in ix.links_to[links[l].destination]
    /\ \A r \in Racks : has_rack(r) =>
          /\ ix.by_membership[racks[r].membership] =
                {x \in Racks : racks[x].membership = racks[r].membership}
          /\ ix.by_boot[racks[r].boot] = {x \in Racks : has_rack(x) /\ racks[x].boot = racks[r].boot}

(* ClusterCoordinator::invariants: check_invariants over canonical state   *)
(* and the indexes.                                                        *)
invariants(ix) ==
    /\ NothingRecorded \/ (CountersConsistent(counters) /\ RecordsConsistent)
    /\ check_indexes(ix)

-----------------------------------------------------------------------------
(***************************************************************************)
(* Answers.                                                                *)
(***************************************************************************)
domain_is_current(d) == is_current(domains[d].evidence)
domain_needs_revalidation(d) == requires_revalidation(domains[d].evidence)

(* Mutated form: a domain awaiting revalidation is passed over silently. *)
RevalidationPassedOver(ix, lhs, rhs, klass) ==
    LET OfClass(r) == {d \in ix.domains_of["failure"][r] : HasDomain(d) /\ domains[d].klass = klass}
        current == {d \in OfClass(lhs) \cup OfClass(rhs) : domain_is_current(d)}
        Covered(r) == \E d \in current : r \in domains[d].racks
    IN  IF ~(has_rack(lhs) /\ has_rack(rhs)) THEN "Unknown"
        ELSE IF \E d \in current : {lhs, rhs} \subseteq domains[d].racks THEN "Shared"
        ELSE IF Covered(lhs) /\ Covered(rhs) THEN "Independent"
        ELSE "Unknown"

failure_domain_independence(ix, lhs, rhs, klass) ==
    LET OfClass(r) == {d \in ix.domains_of["failure"][r] : HasDomain(d) /\ domains[d].klass = klass}
        seen == OfClass(lhs) \cup OfClass(rhs)
        current == {d \in seen : ~domain_needs_revalidation(d) /\ domain_is_current(d)}
        Covered(r) == \E d \in current : r \in domains[d].racks
    IN  IF klass = UnknownClass \/ ~has_rack(lhs) \/ ~has_rack(rhs) THEN "Unknown"
        ELSE IF \E d \in current : {lhs, rhs} \subseteq domains[d].racks THEN "Shared"
        ELSE IF \E d \in seen : domain_needs_revalidation(d) THEN "RevalidationRequired"
        ELSE IF Covered(lhs) /\ Covered(rhs) THEN "Independent"
        ELSE "Unknown"

Forward(l, source, destination) ==
    /\ HasLink(l)
    /\ \/ links[l].source = source /\ links[l].destination = destination
       \/ /\ links[l].source = destination /\ links[l].destination = source
          /\ l \in Bidirectional

reachability_between(source, destination) ==
    LET seen == {l \in LinkIds : Forward(l, source, destination)}
        awaiting == {l \in seen : requires_revalidation(links[l].evidence)}
        current == {l \in seen \ awaiting : is_current(links[l].evidence)}
        Saw(x) == \E l \in current : links[l].reachability = x
    IN  IF ~has_rack(source) \/ ~has_rack(destination) THEN "Unknown"
        ELSE IF Saw("Reachable") THEN "Reachable"
        ELSE IF awaiting # {} \/ Saw("RevalidationRequired") THEN "RevalidationRequired"
        ELSE IF Saw("Unreachable") THEN "Unreachable"
        ELSE "Unknown"

(* The code looks at the members in order; that one is not recorded never  *)
(* happens (ReferencesResolve), so the order does not show.                *)
aggregate_capacity(d, unit) ==
    LET q == Quantities[d]
        found == {i \in DOMAIN q : q[i].unit = unit}
        Refuse(status) == [status |-> status, value |-> NoValue, provenance |-> "Unknown"]
    IN  IF ~HasDomain(d) \/ found = {} THEN Refuse("Unknown")
        ELSE IF \E i \in found : q[i].provenance = "Reconstructed"
             THEN Refuse("RevalidationRequired")
        ELSE IF \E i, j \in found : \/ q[i].provenance # q[j].provenance
                                    \/ q[i].aggregated # q[j].aggregated
             THEN Refuse("MixedSemantics")
        ELSE IF \E r \in domains[d].racks : ~has_rack(r) THEN Refuse("IncompleteEvidence")
        ELSE IF \E r \in domains[d].racks : requires_revalidation(racks[r].evidence)
             THEN Refuse("RevalidationRequired")
        ELSE IF \E i \in found : q[i].value = NoValue THEN Refuse("IncompleteEvidence")
        ELSE [status |-> "Known",
              value |-> MapThenFoldSet(+, 0, LAMBDA i : q[i].value,
                                       LAMBDA S : CHOOSE i \in S : TRUE, found),
              provenance |-> IF Cardinality(found) > 1 THEN "Derived"
                             ELSE q[CHOOSE i \in found : TRUE].provenance]

-----------------------------------------------------------------------------
(***************************************************************************)
(* Readers among the commits.  A query locks canonical state, so it comes  *)
(* between two commits; the first one after a commit rebuilds the indexes. *)
(***************************************************************************)
(* Mutated form: a commit leaves the indexes valid. *)
IndexesKept == UNCHANGED indexes

touch_state == indexes' = NoIndexes

with_state ==
    /\ indexes = NoIndexes
    /\ indexes' = rebuild
    /\ UNCHANGED vars

QueryInit == Init /\ indexes = NoIndexes

(* A declaration that is rolled back is the one served step that is no     *)
(* commit.                                                                 *)
QueryNext ==
    \/ Serve /\ IF counters' = counters THEN UNCHANGED indexes ELSE touch_state
    \/ Restart /\ touch_state
    \/ with_state

QuerySpec == QueryInit /\ [][QueryNext]_<<vars, indexes>>

-----------------------------------------------------------------------------
(* The coordinator's own check of itself finds nothing, whenever a reader  *)
(* asks: a fence and a restart change canonical state without the gate a   *)
(* mutation has to pass, and a reader may use indexes another one built.   *)
SelfCheckHolds ==
    Declared /\ indexes # NoIndexes => invariants(indexes)

(* Two racks are called independent only when each is in a current domain  *)
(* of the class and no current domain holds both.  They are called shared  *)
(* exactly when a current domain holds both.  When they are not, and a     *)
(* domain that holds either awaits revalidation, the reader is told so.    *)
(* Asking the other way round gives the same answer.  The records count,   *)
(* not the indexes the answer was computed from.                           *)
IndependenceIsEvidenced ==
    indexes # NoIndexes =>
        \A lhs, rhs \in Racks, k \in Classes \ {UnknownClass} :
            LET answer == failure_domain_independence(indexes, lhs, rhs, k)
                Of(r) == {d \in DomainsOf("failure") : r \in domains[d].racks /\ domains[d].klass = k}
                Current(r) == {d \in Of(r) : domain_is_current(d)}
            IN  /\ answer = failure_domain_independence(indexes, rhs, lhs, k)
                /\ answer = "Shared" <=> Current(lhs) \cap Current(rhs) # {}
                /\ answer = "RevalidationRequired" <=>
                      /\ answer # "Shared" /\ has_rack(lhs) /\ has_rack(rhs)
                      /\ \E d \in Of(lhs) \cup Of(rhs) : domain_needs_revalidation(d)
                /\ answer = "Independent" => Current(lhs) # {} /\ Current(rhs) # {}

(* A claim that one rack reaches another, or does not, rests on a link of  *)
(* the topology epoch in force between two members, and "unreachable" is   *)
(* never said against a current link that says "reachable": whatever was   *)
(* superseded, withdrawn, fenced or recovered before.                      *)
ReachabilityIsEvidenced ==
    \A s, d \in Racks :
        LET answer == reachability_between(s, d)
            Supports(l) == /\ Forward(l, s, d)
                           /\ links[l].topology_epoch = topology_epoch
                           /\ is_current(links[l].evidence)
                           /\ links[l].reachability = answer
        IN  answer \in {"Reachable", "Unreachable"} =>
                /\ is_rack_member(s) /\ is_rack_member(d)
                /\ \E l \in LinkIds : Supports(l)
                /\ answer = "Unreachable" =>
                      \A l \in LinkIds : Forward(l, s, d) /\ is_current(links[l].evidence)
                                            => links[l].reachability # "Reachable"

(* A restarted coordinator claims nothing from before: no reachability,    *)
(* and no capacity of a domain that has members, until they published      *)
(* again.  Domains are declarations and keep their evidence, so nothing is *)
(* said of independence.                                                   *)
RestartClaimsNothing ==
    [][coordinator_epoch' # coordinator_epoch =>
          /\ \A s, d \in Racks : reachability_between(s, d)' \notin {"Reachable", "Unreachable"}
          /\ \A d \in DomainsOf("capacity")', u \in Units :
                domains'[d].racks # {} => aggregate_capacity(d, u)'.status # "Known"
      ]_<<vars, indexes>>
=============================================================================
