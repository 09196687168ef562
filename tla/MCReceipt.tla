------------------------------ MODULE MCReceipt ------------------------------
\* Receipt on a few accounts, with one locale or with two.
EXTENDS Receipt
CONSTANTS a1, a2, a3, a4, a5, a6, a7

Two == {a1, a2}
Few == {a1, a2, a3, a4, a5}
Many == {a1, a2, a3, a4, a5, a6, a7}

\* The place of each account in a sequence of them.
Places(ids) == [a \in ToSet(ids) |-> CHOOSE i \in DOMAIN ids : ids[i] = a]

OneLocale == {Places(<<a1, a2, a3, a4, a5>>)}
OneLocaleOfMany == {Places(<<a1, a2, a3, a4, a5, a6, a7>>)}
\* A locale that sorts the two ids the other way round.
TwoLocales == {Places(<<a1, a2>>), Places(<<a2, a1>>)}
=============================================================================
