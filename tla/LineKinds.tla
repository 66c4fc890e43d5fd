----------------------------- MODULE LineKinds ------------------------------
(***************************************************************************)
(* What the parsers of sections.go tell apart in a rendered line.  They    *)
(* look at a line only through a few predicates, so a line is represented  *)
(* by its kind: one kind for each combination of their answers that        *)
(* LinkedIn's text shows.  An example of each:                             *)
(*                                                                         *)
(*   label         Software Engineer                                       *)
(*   employer      Acme Corp . Full-time                                   *)
(*   employment    Full-time                                               *)
(*   span          18 yrs 1 mo                                             *)
(*   range         Jan 2020 - Present                                      *)
(*   place         Bengaluru, Karnataka, India                             *)
(*   credential    Credential ID 77                                        *)
(*   sentence      Ran the data team.                                      *)
(*   listing       Built search, ranking and ads.                          *)
(*   datedSentence Led growth 2019 - 2021.                                 *)
(*   datedBullet   * Shipped the new editor . Jan 2020                     *)
(*   issuer        Issued by Economic Times . Jan 2016                     *)
(*   placedIssuer  Issued by Foo, Inc. . Jan 2016                          *)
(***************************************************************************)
Kinds == {"label", "employer", "employment", "span", "range", "place",
          "credential", "sentence", "listing", "datedSentence", "datedBullet",
          "issuer", "placedIssuer"}

\* ParseDates finds a date: a range anywhere, or nothing but a single date.
IsDate(k) == k \in {"range", "datedSentence"}

\* closesRow: a date, or a date after the last middle dot.
ClosesRow(k) == IsDate(k) \/ k \in {"datedBullet", "issuer", "placedIssuer"}

\* LooksLikeLocation: a workplace type, a metro area, or a short line with a
\* comma and no date.
LooksLikeLocation(k) == k \in {"place", "listing", "placedIssuer"}

\* looksLikeProse: a bullet, a full stop at the end, or a long line.
LooksLikeProse(k) == k \in {"sentence", "listing", "datedSentence", "datedBullet"}

\* credentialLine, bareDuration, and membership in employmentTypes.
IsCredential(k)   == k = "credential"
IsBareDuration(k) == k = "span"
IsEmployment(k)   == k = "employment"

\* SplitEmploymentType finds a type after the last middle dot.
NamesType(k) == k = "employer"

\* What SplitEmploymentType leaves of a line: without its type it is a name.
BeforeType(k) == IF NamesType(k) THEN "label" ELSE k

\* continuesPreviousRow.
Continues(k) == LooksLikeLocation(k) \/ IsCredential(k) \/ LooksLikeProse(k)

\* The lines namesItsOwnEmployer counts.
IsNameLike(k) ==
    ~(IsDate(k) \/ LooksLikeProse(k) \/ IsEmployment(k) \/ LooksLikeLocation(k))
=============================================================================
