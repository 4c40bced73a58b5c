-------------------------- MODULE ExclusiveResource --------------------------
(***************************************************************************)
(* What the resource queue promises to those who use it, without leases,   *)
(* blocks, jobs or a dispatcher: every resource has at most one user, who  *)
(* may use it until the use is known to be over, and hands it over to the  *)
(* oldest of those who wait.                                               *)
(***************************************************************************)
EXTENDS Integers

CONSTANTS Resource, None, MaxRequests

Id == 1 .. MaxRequests

VARIABLES
  wants,    \* the resource a request is for, None before it arrives
  waiting,  \* the requests that wait
  user,     \* the request a resource belongs to
  using     \* the requests that may be using their resource

vars == <<wants, waiting, user, using>>

Init ==
  /\ wants = [q \in Id |-> None]
  /\ waiting = {}
  /\ user = [r \in Resource |-> None]
  /\ using = {}

\* The one to be served next is the oldest waiter, if there is any.
IsNext(r, q) ==
  \/ q = None /\ \A p \in waiting : wants[p] # r
  \/ /\ q \in waiting /\ wants[q] = r
     /\ \A p \in waiting : wants[p] = r => q <= p

\* A request arrives: it gets a free resource at once, or waits.
Arrive(q, r) ==
  /\ wants[q] = None /\ \A p \in Id : p < q => wants[p] # None
  /\ wants' = [wants EXCEPT ![q] = r]
  /\ \/ /\ user[r] = None
        /\ user' = [user EXCEPT ![r] = q]
        /\ using' \in {using, using \cup {q}}
        /\ UNCHANGED waiting
     \/ /\ user[r] # None
        /\ waiting' = waiting \cup {q}
        /\ UNCHANGED <<user, using>>

\* Requests give up waiting.
Withdraw(W) ==
  /\ W # {}
  /\ waiting' = waiting \ W
  /\ UNCHANGED <<wants, user, using>>

\* The user of a resource begins to use it; its use is known to be over.
Begin(q) ==
  /\ wants[q] \in Resource /\ user[wants[q]] = q
  /\ using' = using \cup {q}
  /\ UNCHANGED <<wants, waiting, user>>

End(q) ==
  /\ using' = using \ {q}
  /\ UNCHANGED <<wants, waiting, user>>

\* The user of a resource is done with it; the next one may begin at once.
HandOver(r, next) ==
  /\ user[r] # None /\ IsNext(r, next)
  /\ user' = [user EXCEPT ![r] = next]
  /\ waiting' = waiting \ {next}
  /\ \E begins \in SUBSET {next} :
       /\ None \notin begins
       /\ using' = (using \ {user[r]}) \cup begins
  /\ UNCHANGED wants

Next ==
  \/ \E q \in Id, r \in Resource : Arrive(q, r)
  \/ \E W \in SUBSET waiting : Withdraw(W)
  \/ \E q \in Id : Begin(q) \/ End(q)
  \/ \E r \in Resource, q \in Id \cup {None} : HandOver(r, q)

Spec == Init /\ [][Next]_vars
=============================================================================
