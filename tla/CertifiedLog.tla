---------------------------- MODULE CertifiedLog ----------------------------
(***************************************************************************)
(* What the replicated log promises its users, whatever the network and    *)
(* the repairs do: one certified sequence of values that only grows, and   *)
(* in each replica a prefix of it that only grows.                         *)
(***************************************************************************)
EXTENDS Naturals, Sequences, SequencesExt

CONSTANTS Replicas, Values

VARIABLES chain, log

Init ==
  /\ chain = <<>>
  /\ log = [r \in Replicas |-> <<>>]

\* One value is certified at the next height.
Certify == \E v \in Values : chain' = Append(chain, v)

\* A replica appends certified values, in order and without a gap.
Learn(r) ==
  \E n \in Len(log[r])..Len(chain') :
    log' = [log EXCEPT ![r] = SubSeq(chain', 1, n)]

Next == (Certify \/ UNCHANGED chain) /\ \E r \in Replicas : Learn(r)

Spec == Init /\ [][Next]_<<chain, log>>
=============================================================================
