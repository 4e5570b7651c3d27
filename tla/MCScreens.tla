----------------------------- MODULE MCScreens -----------------------------
EXTENDS Screens

CONSTANTS p, q

\* Two groups the category can hang from.
Groups == {p, q}

=============================================================================
