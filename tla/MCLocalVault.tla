---------------------------- MODULE MCLocalVault ----------------------------
EXTENDS LocalVault
=============================================================================
