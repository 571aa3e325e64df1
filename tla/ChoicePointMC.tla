--------------------------- MODULE ChoicePointMC ---------------------------
(* Two atoms, and every match list of at most three of these packages.     *)
EXTENDS ChoicePoint, SequencesExt

CONSTANTS a, b

Bare == [x \in Attrs |-> {}]

MCPackages == {
    Bare,
    [Bare EXCEPT !.depend = {{a}}],
    [Bare EXCEPT !.rdepend = {{a, b}}, !.idepend = {{b}}],
    [Bare EXCEPT !.bdepend = {{b}}, !.pdepend = {{a, b}}],
    [Bare EXCEPT !.depend = {{a, b}, {b}}, !.pdepend = {{b}}],
    [Bare EXCEPT !.rdepend = {{a}, {b}}, !.pdepend = {{a}}]}

MCCandidates == BoundedSeq(MCPackages, 3)
=============================================================================
