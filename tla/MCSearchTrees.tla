---------------------------- MODULE MCSearchTrees ----------------------------
\* Texts of up to three contents and arrays of up to three elements.
EXTENDS SearchTrees
=============================================================================
