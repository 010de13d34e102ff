----------------------------- MODULE MCAccounts -----------------------------
EXTENDS Accounts, TLC

\* One column at a time, as the administration page sends it.
SingleChange == {<<"set", "keep">>, <<"clear", "keep">>, <<"keep", "active">>, <<"keep", "blocked">>}

Symmetry == Permutations(Handler) \cup Permutations(User \ {Root})
=============================================================================
