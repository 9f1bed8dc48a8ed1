--------------------------- MODULE MCWelcomeBack ---------------------------
(* Two pages of a player who is away while an event falls due. *)
EXTENDS WelcomeBack, TLC

CONSTANTS left, right

MCTabs == {left, right}
MCSymmetry == Permutations(MCTabs)
=============================================================================
