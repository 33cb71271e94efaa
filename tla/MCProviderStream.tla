-------------------------- MODULE MCProviderStream --------------------------
EXTENDS ProviderStream, TLC
=============================================================================
