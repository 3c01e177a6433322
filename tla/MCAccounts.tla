----------------------------- MODULE MCAccounts -----------------------------
(* Small instances of Accounts for TLC.                                      *)
EXTENDS Accounts, TLC

CONSTANTS p1, p2, n1, n2, c1, c2, r1, r2, r3

OnePhone == {p1}
TwoPhones == {p1, p2}
OneLogin == {n1}
TwoLogins == {n1, n2}
OneCode == {c1}
TwoCodes == {c1, c2}
TwoRequests == {r1, r2}
ThreeRequests == {r1, r2, r3}
\* Nothing tells requests, phones, logins or codes apart.
Symmetry == Permutations(Requests) \cup Permutations(Phones) \cup Permutations(Logins)
            \cup Permutations(Codes)
=============================================================================
