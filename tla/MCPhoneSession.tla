--------------------------- MODULE MCPhoneSession ---------------------------
EXTENDS PhoneSession, TLC

CONSTANTS ann, bob, t1, t2, t3, f1, f2, request, mount

TwoUsers    == {ann, bob}
ThreeTokens == {t1, t2, t3}
TwoCallers  == {request, mount}
TwoFlights  == {f1, f2}
Symmetry    == Permutations(TwoUsers) \union Permutations(ThreeTokens) \union Permutations(TwoFlights)
=============================================================================
