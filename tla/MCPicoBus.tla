------------------------------ MODULE MCPicoBus -----------------------------
(* Bytes of two bits; a word store that sets bit 24 and a half-word store. *)
EXTENDS PicoBus
MCBits == {0, 1}
B(x, y) == [b \in MCBits |-> IF b = 0 THEN x ELSE y]
All(x)  == [l \in 0..3 |-> x]
MCData   == [l \in 0..3 |-> IF l \in {1, 3} THEN B(TRUE, FALSE) ELSE B(FALSE, TRUE)]
MCStores == {[data |-> MCData, strb |-> 0..3], [data |-> MCData, strb |-> {0, 1}]}
MCInputs == {All(B(TRUE, TRUE))}
MCImage  == [w \in {0, 1} |-> All(B(TRUE, FALSE))]
MCPages  == {0, 128, 130, 133}
MCFar    == {"xip", "psram", "cfg", "uart", "lcd"}
=============================================================================
