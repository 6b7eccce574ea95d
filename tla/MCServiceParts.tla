---------------------------- MODULE MCServiceParts ----------------------------
\* The seven parts of ServiceParts for TLC.
EXTENDS ServiceParts

CONSTANTS t1, t2

TwoSections == <<"users", "wallets">>
BothOrders == {<<t1, t2>>, <<t2, t1>>}
=============================================================================
