---- MODULE MCProviderCall ----
EXTENDS ProviderCall
====
