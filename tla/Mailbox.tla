------------------------------- MODULE Mailbox -------------------------------
(***************************************************************************)
(* What SAS promises the user of a session's mailboxes: each mailbox is a  *)
(* queue; the hardware posts at its tail, and the mailbox's handler is     *)
(* called with the input at its head.  No input is dropped, repeated or    *)
(* overtaken, and no handler is called while its mailbox is disabled.      *)
(***************************************************************************)
EXTENDS Naturals, Sequences

CONSTANTS Mbx, MaxInput

VARIABLES queue, posted, enabled, handled

vars == <<queue, posted, enabled, handled>>

Init ==
  /\ queue = [m \in Mbx |-> <<>>]
  /\ posted = [m \in Mbx |-> 0]
  /\ enabled = {}
  /\ handled = [m \in Mbx |-> <<>>]

Post(m) ==
  /\ posted[m] < MaxInput
  /\ posted' = [posted EXCEPT ![m] = @ + 1]
  /\ queue' = [queue EXCEPT ![m] = Append(@, posted[m] + 1)]
  /\ UNCHANGED <<enabled, handled>>

Enable ==
  /\ enabled' \in SUBSET Mbx
  /\ enabled \subseteq enabled'
  /\ UNCHANGED <<queue, posted, handled>>

\* The handler of an enabled mailbox takes the head of its queue; it may
\* disable its own mailbox and enable any.
Deliver(m) ==
  /\ m \in enabled
  /\ queue[m] # <<>>
  /\ handled' = [handled EXCEPT ![m] = Append(@, Head(queue[m]))]
  /\ queue' = [queue EXCEPT ![m] = Tail(@)]
  /\ enabled' \in SUBSET Mbx
  /\ enabled \ {m} \subseteq enabled'
  /\ UNCHANGED posted

Next == Enable \/ \E m \in Mbx : Post(m) \/ Deliver(m)

Spec == Init /\ [][Next]_vars

=============================================================================
