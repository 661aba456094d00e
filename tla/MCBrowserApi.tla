---------------------------- MODULE MCBrowserApi ----------------------------
(* BrowserApi with two files in one store; the second store is empty. *)
EXTENDS BrowserApi, TLC

CONSTANTS f, g, a, b

MCStoreOf == (f :> 1) @@ (g :> 1)
=============================================================================
