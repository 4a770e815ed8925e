----------------------------- MODULE MCCatalogue -----------------------------
(* Catalogue for TLC: one event, two organisers. *)
EXTENDS Catalogue

CONSTANTS e1, a1, a2, p1, s1, s2

OneEvent == {e1}
TwoOrganisers == {a1, a2}
OneContainer == {p1}
TwoSlugs == {s1, s2}
SlugOfOne == [e \in OneEvent |-> s1]

\* One entry that every change drops, and one that changes of a tier do not.
ListAndPage == {PublicEventList, EventBySlug(s1)}
=============================================================================
