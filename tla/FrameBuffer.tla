------------------------------ MODULE FrameBuffer ------------------------------
(***************************************************************************)
(* FrameBuffer.ts: a captured framebuffer is a row of bytes, each of some  *)
(* pixels, the leftmost in its highest bit; every row of the display ends  *)
(* in padding.  Buffers count from 0.                                      *)
(***************************************************************************)
EXTENDS Integers, FiniteSets, FiniteSetsExt

CONSTANTS
  Height,        \* DISPLAY_HEIGHT
  BytesPerRow,   \* BYTES_PER_ROW
  RowSize,       \* LCD_ROWSIZE
  Bits           \* in a byte

ASSUME FrameBufferAssumption ==
  /\ {Height, BytesPerRow, RowSize, Bits} \subseteq Nat \ {0}
  /\ BytesPerRow <= RowSize

Width  == BytesPerRow * Bits
Pixels == 0 .. Width * Height - 1
Bytes  == 0 .. 2^Bits - 1
Framebuffers == [0 .. RowSize * Height - 1 -> Bytes]

Bit(byte, i) == (byte \div 2^i) % 2
Xor(a, b) ==
  CHOOSE x \in Bytes :
    \A i \in 0 .. Bits - 1 : Bit(x, i) = 1 <=> Bit(a, i) # Bit(b, i)

POPCOUNT[i \in Bytes] == IF i = 0 THEN 0 ELSE POPCOUNT[i \div 2] + (i % 2)

(* The byte and the bit in which a framebuffer keeps a pixel; and a slip,  *)
(* the rows taken to be without padding.                                   *)
ByteUnpadded(p) == p \div Bits
ByteOf(p) == (p \div Width) * RowSize + ((p % Width) \div Bits)
BitOf(p)  == (Bits - 1) - (p % Bits)

decodeFramebuffer(raw) ==
  [p \in Pixels |-> IF Bit(raw[ByteOf(p)], BitOf(p)) = 1 THEN 255 ELSE 0]

(* The bytes xorFramebuffers() compares, the padding left out.             *)
DataBytes ==
  {row * RowSize + i : row \in 0 .. Height - 1, i \in 0 .. BytesPerRow - 1}

(* The diffCount of xorFramebuffers().                                     *)
xorFramebuffers(a, b) ==
  MapThenSumSet(LAMBDA i : POPCOUNT[Xor(a[i], b[i])], DataBytes)

(* A PNG is four channels a pixel; compression loses nothing.              *)
encodeGrayscalePng(pixels, width, height) ==
  [width |-> width, height |-> height,
   data |-> [j \in 0 .. 4 * width * height - 1 |->
               IF j % 4 = 3 THEN 255 ELSE pixels[j \div 4]]]

framebufferToPng(raw) ==
  encodeGrayscalePng(decodeFramebuffer(raw), Width, Height)

decodePng(png) ==
  [width |-> png.width, height |-> png.height,
   pixels |-> [p \in 0 .. png.width * png.height - 1 |-> png.data[4 * p]]]
===============================================================================
