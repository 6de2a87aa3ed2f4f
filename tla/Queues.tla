------------------------------- MODULE Queues -------------------------------
(***************************************************************************)
(* Operations on queues and counts that several components use, written    *)
(* as recursive functions so that QueueProofs can prove what they return.  *)
(***************************************************************************)
EXTENDS Integers, Sequences, FiniteSets, SequencesExt

\* VecDeque::retain: the elements of s that are in S, in their order.
Keep(s, S) ==
    LET kept[n \in 0 .. Len(s)] ==
            IF n = 0 THEN <<>>
            ELSE IF s[n] \in S THEN Append(kept[n - 1], s[n]) ELSE kept[n - 1]
    IN  kept[Len(s)]

\* The sum of a sequence of numbers.
Total(s) ==
    LET sum[n \in 0 .. Len(s)] == IF n = 0 THEN 0 ELSE sum[n - 1] + s[n]
    IN  sum[Len(s)]

\* The sum of f over the finite set S.
SumOver(f, S) == LET q == SetToSeq(S) IN Total([i \in DOMAIN q |-> f[q[i]]])

=============================================================================
