------------------------------- MODULE Flight -------------------------------
(***************************************************************************)
(* ParseDocument and Deref: the rows of a Flight stream and the references *)
(* between them.                                                           *)
(*                                                                         *)
(* A line is [ok, id, kind, value]; ok says that splitRow and the decoder  *)
(* accept it.  A row is [kind, value], its value a node (see Outline) or,  *)
(* for a client component, the name it exports.  Ids have one digit, so    *)
(* their string order is that of the numbers.                              *)
(***************************************************************************)
EXTENDS SequencesExt, FiniteSets, Integers

EmptyDocument == <<>>

\* Lines that are no row are skipped; of two rows with one id the later counts.
ParseDocument(stream) ==
    LET rows   == {n \in DOMAIN stream : stream[n].ok}
        Row(n) == [kind |-> stream[n].kind, value |-> stream[n].value]
        Latest(id) == CHOOSE n \in rows :
                        /\ stream[n].id = id
                        /\ \A k \in rows : stream[k].id = id => k =< n
    IN  [id \in {stream[n].id : n \in rows} |-> Row(Latest(id))]

\* ErrNotFlight.
NotFlight(doc) == doc = EmptyDocument

\* Deref finds row id, which is not one of those expanded on the path.
Resolves(doc, id, path) == id \in DOMAIN doc /\ id \notin path

IsModel(doc, id) == id \in DOMAIN doc /\ doc[id].kind = "model"
=============================================================================
