---------------------------- MODULE CommitService ----------------------------
(***************************************************************************)
(* What the coordinator promises to those who call submit() and            *)
(* fence_boot(), without its threads: one line of accepted requests and    *)
(* fences, served first come first served.  A request takes effect at one  *)
(* instant, when it reaches the front, and is answered at that instant.    *)
(* Nothing is accepted behind a stop, stop() cuts off no accepted request, *)
(* and a start() loads durable state only when nobody waits.               *)
(***************************************************************************)
EXTENDS Sequences

CONSTANTS Submitters, Boots, NoBoot, NoThread

VARIABLES
    line,        \* what was accepted and not yet served, oldest first
    call,        \* per submitter: its submit() in progress
    owners,      \* incarnations that own a rack or link record
    fenced_authorities

Request(t, b) == [kind |-> "Mutation", slot |-> t, boot |-> b]
Fence(b) == [kind |-> "Fence", slot |-> NoThread, boot |-> b]
End == [kind |-> "Stop", slot |-> NoThread, boot |-> NoBoot]

Init ==
    /\ line = <<>>
    /\ call = [t \in Submitters |-> "idle"]
    /\ owners = {} /\ fenced_authorities = {}

Closed == \E i \in DOMAIN line : line[i] = End
NobodyWaits == \A t \in Submitters : call[t] # "waiting"

Accept(x) == ~Closed /\ line' = Append(line, x)

submit(t, b) ==
    /\ call[t] = "idle"
    /\ Accept(Request(t, b))
    /\ call' = [call EXCEPT ![t] = "waiting"]
    /\ UNCHANGED <<owners, fenced_authorities>>

fence_boot(b) ==
    /\ Accept(Fence(b))
    /\ UNCHANGED <<call, owners, fenced_authorities>>

close ==
    /\ Accept(End)
    /\ UNCHANGED <<call, owners, fenced_authorities>>

Front(x) == line # <<>> /\ Head(line) = x /\ line' = Tail(line)

(* The incarnation of a request that is not refused owns a record, perhaps *)
(* in place of another one.                                                *)
ServeRequest(t, b) ==
    /\ call[t] = "waiting"
    /\ Front(Request(t, b))
    /\ \/ UNCHANGED owners
       \/ b # NoBoot /\ \E kept \in SUBSET owners : owners' = kept \cup {b}
    /\ call' = [call EXCEPT ![t] = "answered"]
    /\ UNCHANGED fenced_authorities

(* A fence that cannot be saved is dropped. *)
ServeFence(b) ==
    /\ Front(Fence(b))
    /\ \/ UNCHANGED fenced_authorities
       \/ b \in owners /\ fenced_authorities' = fenced_authorities \cup {b}
    /\ UNCHANGED <<call, owners>>

(* The end of the line is reached, or stop() clears what nobody waits for. *)
Clear ==
    /\ NobodyWaits
    /\ line' = <<>>
    /\ UNCHANGED <<call, owners, fenced_authorities>>

Return(t) ==
    /\ call[t] = "answered"
    /\ call' = [call EXCEPT ![t] = "idle"]
    /\ UNCHANGED <<line, owners, fenced_authorities>>

recover ==
    /\ NobodyWaits
    /\ fenced_authorities' = fenced_authorities \cup owners
    /\ UNCHANGED <<line, call, owners>>

Next ==
    \/ \E t \in Submitters, b \in Boots \cup {NoBoot} : submit(t, b) \/ ServeRequest(t, b)
    \/ \E b \in Boots : fence_boot(b) \/ ServeFence(b)
    \/ \E t \in Submitters : Return(t)
    \/ close \/ Clear \/ recover

Spec == Init /\ [][Next]_<<line, call, owners, fenced_authorities>>
=============================================================================
