---------------------------- MODULE MCMigrations ----------------------------
EXTENDS Migrations, TLC

CONSTANTS c1, c2, c3, i1, i2

MCCommands == {c1, c2, c3}
MCInvoices == {i1, i2}

Symmetry == Permutations(Commands) \cup Permutations(Invoices)
=============================================================================
