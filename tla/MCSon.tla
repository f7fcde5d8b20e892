------------------------------- MODULE MCSon -------------------------------
EXTENDS Son

\* Contents with '!', '#', '&' and zeros where the automaton can mistake them.
Payloads2 == <<<<33, 33>>, <<35, 0>>>>

\* They are such as the theorem about whole frames asks for.
ASSUME PayloadsClean == CleanPayloads
=============================================================================
