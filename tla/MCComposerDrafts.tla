-------------------------- MODULE MCComposerDrafts --------------------------
(* ComposerDrafts for TLC: the keys of a client may be exchanged.            *)
EXTENDS ComposerDrafts, TLC

KeysMayBeExchanged == Permutations(DesktopKeys) \cup Permutations(PageKeys)
=============================================================================
