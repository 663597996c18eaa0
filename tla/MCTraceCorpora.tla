---------------------------- MODULE MCTraceCorpora ----------------------------
(***************************************************************************)
(* All 81 templates and 57 skeletons, drawn twice at most; values of one   *)
(* line and of two, between texts that end, begin and consist of blanks.   *)
(***************************************************************************)
EXTENDS TraceCorporaProperties

\* The least corpus allocate accepts, one that the templates do not divide,
\* and the corpus of the repository.
MCSizes == {60, 99, 150, 600, 1200}
MCTemplates == DOMAIN Registry

\* A line, a block, and nearly the longest block a skeleton writes.
MCBlocks == {1, 8, 25}

MCValues == {<<Letter>>, <<Letter, NL, Letter>>}
MCPlain == {<<NL>>, <<Blank>>, <<Letter, NL>>, <<Letter, NL, Letter>>, <<NL, NL, Letter>>}
=============================================================================
