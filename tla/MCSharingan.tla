------------------------------ MODULE MCSharingan ------------------------------
(* Instances of Sharingan for TLC. *)
EXTENDS Sharingan

Image(colour, w, h, depth, bytes) ==
  [colour |-> colour, width |-> w, height |-> h, depth |-> depth,
   rows |-> [y \in 0..h-1 |-> [k \in 0..Len(bytes) \div h - 1 |-> bytes[y * (Len(bytes) \div h) + k + 1]]]]

Bytes(S, n) == [1..n -> S]

\* All gray images of 2 x 2 and some of 3 x 2, which meet every case of the
\* prediction; all colours of a pixel; images large enough for the device.
Gray     == {Image("GRAY", 2, 2, 2, b) : b \in Bytes(Symbols, 4)}
            \cup {Image("GRAY", 3, 2, 2, b) : b \in Bytes({0, 1, 3}, 6)}
            \cup {Image("GRAY", 1, 3, 2, b) : b \in Bytes({1, 3}, 3)}
Rgb      == {Image("RGB", 2, 1, 2, b \o c) : b \in Bytes(Symbols, 3), c \in Bytes({0, 3}, 3)}
LargeRgb == {Image("RGB", 2, 3, 2, b \o <<1, 2, 0, 3, 3, 1, 2, 0, 1, 1, 3, 0, 2, 2, 1>>) : b \in Bytes({0, 1, 3}, 3)}
Others   == {Image("RGBA", 1, 2, 2, b \o <<3, 0, 2, 1>>) : b \in Bytes({0, 3}, 4)}
            \cup {Image("PALETTE", 3, 2, 2, b) : b \in Bytes({0, 1}, 6)}
\* Two bytes a sample; with one and with several rows of chunks.
Deep     == {Image("GRAY", 2, 2, 4, b \o b) : b \in Bytes({0, 3}, 4)}
            \cup {Image("GRAY", 2, 3, 4, b \o b) : b \in Bytes({0, 3}, 6)}

MCInputs == Gray \cup Rgb \cup LargeRgb \cup Others \cup Deep \cup {NotPng}

MCParameters ==
  {[chunk_width |-> 2, chunk_height |-> 2, order |-> o, rate |-> 8] : o \in {1, 3}}
  \cup {[chunk_width |-> 2, chunk_height |-> 1, order |-> 2, rate |-> 8]}
=============================================================================
