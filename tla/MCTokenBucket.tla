---- MODULE MCTokenBucket ----
EXTENDS TokenBucket
====
