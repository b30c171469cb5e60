--------------------------- MODULE MCWalRegistry ---------------------------
EXTENDS WalRegistry

\* Three tables.  The writer's limits leave room for four more frames of any
\* mix of sizes, and for three in one table.
BootSizes == <<2, 3, 2>>

Writer == [tables |-> 3, manifest |-> 1, totalBytes |-> 17, totalRecords |-> 7,
           fileBytes |-> 9, records |-> 4]
Narrow == [Writer EXCEPT !.records = 1]
TooFew == [Writer EXCEPT !.tables = 2]

MCLimits == {Writer, Narrow, TooFew}

=============================================================================
