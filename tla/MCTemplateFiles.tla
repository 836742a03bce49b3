--------------------------- MODULE MCTemplateFiles ---------------------------
(***************************************************************************)
(* TemplateFiles on one template and one playbook, with two valid contents *)
(* and one that only a playbook may have, and two requests at a time.      *)
(***************************************************************************)
EXTENDS TemplateFiles, TLC

CONSTANTS good1, good2, bad

MCVersions == {good1, good2, bad}
MCValid == {good1, good2}

\* Puma's threads are interchangeable, and so are the valid contents.
Symmetric == Permutations(Threads) \union Permutations({good1, good2})
=============================================================================
