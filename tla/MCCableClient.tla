--------------------------- MODULE MCCableClient ---------------------------
(* A console page and the page that replaces it, of the same session, as   *)
(* when Turbo shows a preview and then the page itself.                    *)
EXTENDS CableClient

MCSession == [c \in 1..Pages |-> "s"]

=============================================================================
