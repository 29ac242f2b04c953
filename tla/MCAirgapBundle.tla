---------------------------- MODULE MCAirgapBundle ----------------------------
(* TLC instance of AirgapBundle: a tool, the config, and a second name for   *)
(* the path of the config.                                                   *)
EXTENDS AirgapBundle, TLC

CONSTANTS tool, dotConfig

\* "./config" and "config" are two names and one path.
CleanPath(n) == IF n = dotConfig THEN ConfigName ELSE n

\* The config alone, another file, two names of one path, the config's name twice, a
\* reserved name; the config comes last in each, if there is one.
SomeRequests == {<<>>, <<tool>>, <<dotConfig>>, <<ConfigName>>, <<lockName>>}

AirgapSymmetry == Permutations(Contents) \union Permutations(Keys)

=============================================================================
