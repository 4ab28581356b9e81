---------------------------- MODULE MCWebhooks ----------------------------
EXTENDS Webhooks, TLC
Interchangeable == Permutations(Requests) \union Permutations(Runs)
=============================================================================
