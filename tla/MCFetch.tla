------------------------------- MODULE MCFetch -------------------------------
\* Two URLs, the second one a playlist.
EXTENDS Fetch
=============================================================================
