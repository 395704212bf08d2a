------------------------------ MODULE MCBrowser ------------------------------
(* The instances of BrowserSharing for TLC: the cfg files give every       *)
(* constant its value.                                                     *)
EXTENDS BrowserSharing
=============================================================================
