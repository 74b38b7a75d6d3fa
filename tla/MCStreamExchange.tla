---- MODULE MCStreamExchange ----
EXTENDS StreamExchange
====
