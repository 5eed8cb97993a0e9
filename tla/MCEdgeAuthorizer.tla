-------------------------- MODULE MCEdgeAuthorizer --------------------------
(***************************************************************************)
(* Two terminals and two tokens of one account; amounts of either sign.    *)
(***************************************************************************)
EXTENDS EdgeAuthorizer, TLC

CONSTANTS tok1, tok2, term1, term2

MCAmounts == {-1, 2}

MCCeilings == {-1, 1, 3}

(* Tokens and terminals are told apart only by what happens to them.       *)
MCSymmetry == Permutations({tok1, tok2}) \cup Permutations({term1, term2})

=============================================================================
