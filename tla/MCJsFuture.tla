----------------------------- MODULE MCJsFuture -----------------------------
\* JsFuture for TLC: JsFuture.cfg says which tasks, promises and futures.
EXTENDS JsFuture, TLC
=============================================================================
