----------------------------- MODULE MCFlatRows -----------------------------
(***************************************************************************)
(* Every card up to a few lines: short ones over all the kinds of line     *)
(* that the loops tell apart, longer ones over those that make and leave a *)
(* group.                                                                  *)
(***************************************************************************)
EXTENDS FlatRows

ShortKinds == {"label", "employer", "employment", "span", "range", "place",
               "credential", "datedBullet", "listing"}
GroupKinds == {"label", "span", "range", "place"}

UpTo(n, kinds) == UNION {[1 .. m -> kinds] : m \in 0 .. n}

SmallCards == UpTo(4, ShortKinds) \cup UpTo(6, GroupKinds)

\* A job, then two dated bullets and what follows them.
BulletKinds == {"label", "range", "datedBullet", "sentence"}
BulletCards == {<<"label", "range">> \o t : t \in UpTo(4, BulletKinds)}
=============================================================================
