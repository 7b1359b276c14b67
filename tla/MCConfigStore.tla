---------------------------- MODULE MCConfigStore ----------------------------
\* Small instances of ConfigStore for TLC: the writer w and one reader r.
EXTENDS ConfigStore, TLC

CONSTANTS w, r, h1, h2

\* The admin requests of one instance are interchangeable.
HandlerSymmetry == Permutations(Handlers)
=============================================================================
