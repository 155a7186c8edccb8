------------------------------- MODULE MCWallet -------------------------------
EXTENDS Wallet, TLC

MCNames == {"identity-1", "imported-1"}
MCNewNames == <<"identity-1">>
MCImportNames == <<"imported-1">>

Symmetry == Permutations(Keys) \union Permutations(Procs)
===============================================================================
