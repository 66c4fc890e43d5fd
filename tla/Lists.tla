------------------------------- MODULE Lists --------------------------------
(***************************************************************************)
(* Filters of lists.  They keep what is in a set, or what is new.  They    *)
(* are not written with SelectSeq or a fold, which the proofs cannot       *)
(* unfold.                                                                 *)
(***************************************************************************)
EXTENDS SequencesExt

\* What stands at those positions of seq, in its order.
KeepAt(seq, positions) ==
    FlattenSeq([n \in DOMAIN seq |-> IF n \in positions THEN <<seq[n]>> ELSE <<>>])

\* The members of seq that are in set.
Only(seq, set) == KeepAt(seq, {n \in DOMAIN seq : seq[n] \in set})

\* The members of seq that are not in set.
AllBut(seq, set) == KeepAt(seq, {n \in DOMAIN seq : seq[n] \notin set})

\* The first of each member.
FirstOfEach(seq) ==
    KeepAt(seq, {n \in DOMAIN seq : \A a \in 1 .. (n - 1) : seq[a] # seq[n]})
=============================================================================
