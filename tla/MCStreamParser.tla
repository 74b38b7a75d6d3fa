---- MODULE MCStreamParser ----
EXTENDS StreamParser
====
