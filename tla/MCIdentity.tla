----------------------------- MODULE MCIdentity -----------------------------
(* One user with two pairs of tokens; two roles and two permissions under three
   requests; two accounts that want one e-mail.  The parts share their model values,
   and with them their symmetry: x1 and x2 are pairs of tokens and permissions, q1 and
   q2 are requests of each kind, q3 one of administrators and clients. *)
EXTENDS Identity, TLC

CONSTANTS u1, x1, x2, q1, q2, q3, r1, r2, a1, a2

MCPatches == {<<"false", "true">>, <<"true", "text">>, <<"null", "other">>, <<"other">>}

(* The run checks no liveness. *)
Symmetry == Permutations(Pairs) \cup Permutations(Requests)
=============================================================================
