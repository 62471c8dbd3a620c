----------------------------- MODULE MCResponse -----------------------------
(* The messages of the TLC runs of Response: nothing, too much for a buffer, *)
(* and some of either framing, before another message.                       *)
EXTENDS Response

Byte == <<"length", <<1>>>>
Shapes == {<<"length", <<0>>>>, Byte, <<"length", <<14>>>>,
           <<"chunked", <<>>>>, <<"chunked", <<1, 1>>>>}
Pairs == (Shapes \X {<<"chunked", <<1>>>>})
           \cup ({Byte, <<"chunked", <<>>>>} \X {Byte})
Bytes == {<<Byte, Byte>>}
AllKinds == {"fixed", "contiguous", "dynamic"}
OfOwnSize == {"fixed"}
AsNeeded == {"dynamic"}
=============================================================================
