--------------------------- MODULE MCAppResidency ---------------------------
(***************************************************************************)
(* AppResidency for TLC: a chat with a variant put on the device by hand,  *)
(* which the library cannot delete, and one that it can, and a splat       *)
(* viewer.  The chat's second variant is not on the device at first.       *)
(***************************************************************************)
EXTENDS AppResidency

TwoModes    == {"chat", "splat"}
TwoOffered  == [m \in TwoModes |-> IF m = "chat" THEN {"fp16", "int4"} ELSE {"dl3dv"}]
ThreeModes   == {"chat", "vlm", "splat"}
ThreeOffered == [m \in ThreeModes |->
                   CASE m = "chat" -> {"fp16"} [] m = "vlm" -> {"smol"} [] m = "splat" -> {"dl3dv"}]
AllKeys     == {"fp16", "int4", "dl3dv", "smol"}
Catalogue   == {"int4"}
OneVariant  == {{"fp16", "dl3dv"}}
Complete    == {AllKeys}
Nothing     == {}
Reselecting == {"reselect"}
=============================================================================
