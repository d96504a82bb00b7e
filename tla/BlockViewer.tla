----------------------------- MODULE BlockViewer -----------------------------
(* What the hook useBlockContent promises a picture on the screen: it asks  *)
(* for one block, waits, and then shows that block and no other, or says    *)
(* that the block is unavailable; a late answer may still replace that      *)
(* word, and what is shown stays until something else is asked for.         *)
CONSTANTS Blocks, NoBlock

VARIABLES asked, face, shown

viewerVars == <<asked, face, shown>>

ViewerInit == asked = NoBlock /\ face = "idle" /\ shown = NoBlock

Ask ==
  /\ asked' \in Blocks
  /\ face' = "loading"
  /\ shown' = NoBlock

Close ==
  /\ asked' = NoBlock
  /\ face' = "idle"
  /\ shown' = NoBlock

Reveal ==
  /\ face \in {"loading", "error"}
  /\ face' = "loaded"
  /\ shown' = asked
  /\ UNCHANGED asked

GiveUp ==
  /\ face = "loading"
  /\ face' = "error"
  /\ UNCHANGED <<asked, shown>>

ViewerNext == Ask \/ Close \/ Reveal \/ GiveUp

ViewerSpec == ViewerInit /\ [][ViewerNext]_viewerVars
==============================================================================
