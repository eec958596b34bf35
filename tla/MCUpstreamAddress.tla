------------------------- MODULE MCUpstreamAddress -------------------------
(* Addresses of two bits, of which 0 and 1 are blocked and 1 is listed.     *)
EXTENDS UpstreamAddress, TLC

V4(n) == [family |-> 4, bits |-> n]
V6(n) == [family |-> 6, bits |-> n]

MCBlockedV4  == {0, 1}
MCAllowLists == {{[ip |-> V4(1), len |-> 2]}}

\* A public address; that and one that is listed, mapped; a blocked one, mapped;
\* and none.
MCAnswers == {{V4(2)}, {V4(2), V6(5)}, {V6(4)}, {}}

Symmetry == Permutations(Requests)
=============================================================================
