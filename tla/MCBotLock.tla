----------------------------- MODULE MCBotLock -----------------------------
\* Instances of BotLock for TLC.
EXTENDS BotLock, TLC

\* Entries are interchangeable names.
EntrySymmetry == Permutations(Entries)
=============================================================================
