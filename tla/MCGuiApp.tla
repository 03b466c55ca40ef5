------------------------------- MODULE MCGuiApp -------------------------------
(* Instance of GuiApp for TLC: one frame that fits a chunk, one that takes two. *)
EXTENDS GuiApp

SmallFrames == {<<"prefix", "json", "bel">>, <<"prefix", "json", "json", "json", "bel">>}
==============================================================================
