------------------------------- MODULE MCPng --------------------------------
(***************************************************************************)
(* Images to write, and small PNG files made by an encoder that follows    *)
(* the PNG and DEFLATE standards rather than the code: every colour type   *)
(* and depth, every filter, stored, fixed and dynamic blocks, interlacing, *)
(* transparency, chunks that are not known, and data in several chunks.    *)
(***************************************************************************)
EXTENDS Png

\* An image with sample f(k) at place k.
Made(x, y, f(_)) == [x |-> x, y |-> y, pixels |-> [k \in 1 .. 3 * x * y |-> f(k) % 256]]

MCImage ==
    {Made(1, 2, LAMBDA k : IF k \in s THEN 200 ELSE 7) : s \in SUBSET (2 .. 5)}
    \cup {Made(10, 9, LAMBDA k : 0), Made(3, 4, LAMBDA k : k * k), Made(2, 6, LAMBDA k : 250 - 3 * k),
          Made(4, 3, LAMBDA k : (k \div 3) * 37 + (k % 3)), Made(5, 2, LAMBDA k : <<0, 0, 9, 1>>[(k % 4) + 1]),
          Made(6, 2, LAMBDA k : IF k \in {7, 8, 9, 10, 27, 28, 29, 30, 31} THEN 144 ELSE k * 85)}

-----------------------------------------------------------------------------
Sum8(f) == f[1] + f[2] + f[3] + f[4] + f[5] + f[6] + f[7] + f[8]

\* Bits, the first first; numbers have their lowest bit first, Huffman codes their highest.
Low(v, n) == [i \in 1 .. n |-> (v \div 2^(i - 1)) % 2]
High(v, n) == [i \in 1 .. n |-> (v \div 2^(n - i)) % 2]
Bytes(bits) ==
    LET bit(i) == IF i <= Len(bits) THEN bits[i] ELSE 0
        byte(j) == Sum8([i \in 1 .. 8 |-> bit(8 * j + i) * 2^(i - 1)])
    IN  [j \in 1 .. (Len(bits) + 7) \div 8 |-> byte(j - 1)]

Zlib(blocks) == <<120, 1>> \o blocks \o <<0, 0, 0, 0>>
Stored(data, final) ==
    <<IF final THEN 1 ELSE 0, Len(data), 0, 255 - Len(data), 255>> \o data
FixedBlock(data) ==
    Bytes(<<1, 1, 0>> \o FlattenSeq([i \in DOMAIN data |-> IF data[i] < 144 THEN High(48 + data[i], 8)
                                                           ELSE High(256 + data[i], 9)])
                     \o High(0, 7))

\* A dynamic block whose symbols are 0, 1, 255, and matches of length 3 (257) and 4 (258) at
\* distances 1 and 2.  Code lengths are sent with all three kinds of repetition.
DynamicHead ==
    <<1, 0, 1>> \o Low(2, 5) \o Low(1, 5) \o Low(14, 4)
    \o FlattenSeq([i \in 1 .. 18 |-> Low(<<3, 3, 3, 0, 0, 0, 0, 0, 0, 0, 0, 0, 0, 3, 0, 2, 0, 2>>[i], 3)])
    \o High(1, 2) \o High(1, 2)
    \o High(6, 3) \o Low(5, 3) \o High(7, 3) \o Low(127, 7) \o High(7, 3) \o Low(96, 7)
    \o High(4, 3) \o High(5, 3) \o Low(0, 2)
    \o High(0, 2) \o High(0, 2)
Literal(v) == CASE v = 0 -> High(0, 2) [] v = 1 -> High(1, 2) [] v = 255 -> High(4, 3)
Repeat(length, dist) == High(6 + length - 3, 3) \o High(dist - 1, 1)
Dynamic(tokens) == Bytes(DynamicHead \o FlattenSeq(tokens) \o High(5, 3))

-----------------------------------------------------------------------------
\* The filters of the standard: bytes beyond the edges are zero.
Standard(type, a, b, c) ==
    LET near(v) == Abs(a + b - c - v)
    IN  CASE type = 0 -> 0 [] type = 1 -> a [] type = 2 -> b [] type = 3 -> (a + b) \div 2
          [] type = 4 -> IF near(a) <= near(b) /\ near(a) <= near(c) THEN a
                         ELSE IF near(b) <= near(c) THEN b ELSE c
Lines(rows, n, filters) ==
    LET at(j, i) == IF j < 1 \/ i < 1 THEN 0 ELSE rows[j][i]
        line(j) == [i \in DOMAIN rows[j] |->
            (rows[j][i] - Standard(filters[j], at(j, i - n), at(j - 1, i), at(j - 1, i - n))) % 256]
    IN  FlattenSeq([j \in DOMAIN rows |-> <<filters[j]>> \o line(j)])

\* Samples of a depth as the bytes of a row.
Packed(depth, samples) ==
    CASE depth = 8 -> samples
      [] depth = 16 -> [i \in 1 .. 2 * Len(samples) |->
                           IF i % 2 = 1 THEN samples[(i + 1) \div 2] \div 256 ELSE samples[i \div 2] % 256]
      [] OTHER -> LET bits == FlattenSeq([i \in DOMAIN samples |-> High(samples[i], depth)])
                      bit(i) == IF i <= Len(bits) THEN bits[i] ELSE 0
                  IN  [j \in 1 .. (Len(bits) + 7) \div 8 |->
                          Sum8([i \in 1 .. 8 |-> bit(8 * (j - 1) + i) * 2^(8 - i)])]


ImageHeader(x, y, depth, color, interlace) == Chunk(IHDR, Big4(x) \o Big4(y) \o <<depth, color, 0, 0, interlace>>)

\* The colour of a pixel of some depth, with a palette if it is not empty.
Shown(depth, palette, pixel) ==
    LET v(c) == IF depth = 16 THEN pixel[c] \div 256 ELSE pixel[c] * (255 \div (2^depth - 1))
    IN  IF palette # <<>> THEN palette[pixel[1] + 1]
        ELSE IF Len(pixel) <= 2 THEN <<v(1), v(1), v(1)>> ELSE <<v(1), v(2), v(3)>>

\* Rows of pixels as filtered bytes.
Data(depth, rows, filters) ==
    Lines([j \in DOMAIN rows |-> Packed(depth, FlattenSeq(rows[j]))],
          IF depth < 8 THEN 1 ELSE Len(rows[1][1]) * (depth \div 8), filters)

\* The seven images of an interlaced one.
Adam7 == <<<<1, 6, 4, 6, 2, 6, 4, 6>>, <<7, 7, 7, 7, 7, 7, 7, 7>>, <<5, 6, 5, 6, 5, 6, 5, 6>>,
           <<7, 7, 7, 7, 7, 7, 7, 7>>, <<3, 6, 4, 6, 3, 6, 4, 6>>, <<7, 7, 7, 7, 7, 7, 7, 7>>,
           <<5, 6, 5, 6, 5, 6, 5, 6>>, <<7, 7, 7, 7, 7, 7, 7, 7>>>>
Interlaced(depth, rows) ==
    LET columns(k, j) == SelectSeq([i \in 1 .. Len(rows[1]) |-> i], LAMBDA i : Adam7[j][i] = k)
        lines(k) == SelectSeq([j \in 1 .. Len(rows) |-> j], LAMBDA j : columns(k, j) # <<>>)
        part(k) == [m \in DOMAIN lines(k) |->
                       [l \in DOMAIN columns(k, lines(k)[m]) |-> rows[lines(k)[m]][columns(k, lines(k)[m])[l]]]]
    IN  FlattenSeq([k \in 1 .. 7 |-> IF lines(k) = <<>> THEN <<>>
                                     ELSE Data(depth, part(k), [m \in DOMAIN lines(k) |-> (k + m) % 5])])

\* A file: the chunks before and after its header, and how its data is packed.
File(depth, color, interlace, palette, rows, filters, before, after, pack(_)) ==
    [file |-> png_sig \o before \o ImageHeader(Len(rows[1]), Len(rows), depth, color, interlace) \o after
              \o pack(IF interlace = 1 THEN Interlaced(depth, rows) ELSE Data(depth, rows, filters))
              \o Chunk(IEND, <<>>),
     wanted |-> [x |-> Len(rows[1]), y |-> Len(rows),
                 pixels |-> FlattenSeq(FlattenSeq([j \in DOMAIN rows |->
                               [i \in DOMAIN rows[j] |-> Shown(depth, palette, rows[j][i])]]))]]

\* y rows of x pixels with n samples, given by the place of the sample.
Rows(x, y, n, f(_)) ==
    [j \in 1 .. y |-> [i \in 1 .. x |-> [c \in 1 .. n |-> f(((j - 1) * x + i - 1) * n + c)]]]

OneFixed(data) == Chunk(IDAT, Zlib(FixedBlock(data)))
OneStored(data) == Chunk(IDAT, Zlib(Stored(data, TRUE)))
\* Two blocks, in three chunks with the boundaries in the middle of a block.
Pieces(data) ==
    LET z == Zlib(Stored(SubSeq(data, 1, 4), FALSE) \o FixedBlock(SubSeq(data, 5, Len(data))))
    IN  Chunk(IDAT, SubSeq(z, 1, 1)) \o Chunk(IDAT, SubSeq(z, 2, 12)) \o Chunk(IDAT, SubSeq(z, 13, Len(z)))
Headless(data) == Chunk(IDAT, Stored(data, TRUE))

CgBIChunk == Chunk(CgBI, <<80, 0, 32, 2>>)
gAMA == <<103, 65, 77, 65>>
Colors == <<<<9, 8, 7>>, <<200, 100, 50>>, <<0, 255, 3>>, <<1, 1, 1>>>>
PLTEChunk == Chunk(PLTE, FlattenSeq(Colors))

\* The iPhone's variant of PNG: blue, green and red, and no header of the data.
IPhoneFile ==
    LET bgr == File(8, 2, 0, <<>>, Rows(2, 1, 3, LAMBDA k : 40 * k), <<1>>, CgBIChunk, <<>>, Headless)
    IN  [bgr EXCEPT !.wanted.pixels = <<120, 80, 40, 240, 200, 160>>]

MCFiles == {
    File(1, 0, 0, <<>>, Rows(9, 3, 1, LAMBDA k : ((k * k) \div 3) % 2), <<0, 2, 4>>, <<>>,
         Chunk(tRNS, <<0, 1>>), OneFixed),
    File(1, 0, 0, <<>>, Rows(1, 2, 1, LAMBDA k : k % 2), <<1, 3>>, <<>>, <<>>, OneStored),
    File(2, 0, 0, <<>>, Rows(7, 2, 1, LAMBDA k : (k * k) % 4), <<3, 4>>, <<>>, <<>>, OneStored),
    File(4, 0, 0, <<>>, Rows(3, 2, 1, LAMBDA k : (5 * k) % 16), <<4, 3>>, <<>>, Chunk(tRNS, <<0, 15>>), OneFixed),
    File(8, 0, 0, <<>>, Rows(3, 5, 1, LAMBDA k : (k * 77) % 256), <<3, 4, 3, 2, 1>>, <<>>,
         Chunk(tRNS, <<0, 77>>), Pieces),
    File(16, 0, 0, <<>>, Rows(2, 2, 1, LAMBDA k : 9999 * k), <<1, 4>>, <<>>, Chunk(tRNS, <<39, 15>>), OneFixed),
    File(8, 2, 0, <<>>, Rows(2, 5, 3, LAMBDA k : (k * 91) % 256), <<0, 1, 2, 3, 4>>, <<>>,
         Chunk(gAMA, [k \in 1 .. 40 |-> 73]) \o Chunk(tRNS, <<0, 91, 0, 182, 0, 17>>), Pieces),
    File(16, 2, 0, <<>>, Rows(2, 2, 3, LAMBDA k : 5003 * k), <<4, 3>>, <<>>,
         Chunk(tRNS, <<19, 139, 39, 22, 58, 161>>), OneStored),
    File(8, 3, 0, Colors, Rows(2, 2, 1, LAMBDA k : k % 4), <<0, 2>>, <<>>,
         PLTEChunk \o Chunk(tRNS, <<0, 128>>), OneStored),
    File(2, 3, 1, Colors, Rows(5, 5, 1, LAMBDA k : (k * k) % 4), <<>>, <<>>, PLTEChunk, OneFixed),
    File(8, 4, 0, <<>>, Rows(2, 2, 2, LAMBDA k : (k * 60) % 256), <<4, 4>>, <<>>, <<>>, Pieces),
    File(16, 6, 0, <<>>, Rows(1, 2, 4, LAMBDA k : 8000 * k), <<2, 3>>, <<>>, <<>>, OneFixed),
    File(8, 6, 1, <<>>, Rows(1, 1, 4, LAMBDA k : 40 * k), <<>>, <<>>, <<>>, OneStored),
    File(8, 0, 1, <<>>, Rows(8, 8, 1, LAMBDA k : 3 * k), <<>>, <<>>, <<>>, OneStored),
    IPhoneFile,
    [file |-> png_sig \o ImageHeader(7, 2, 8, 0, 0)
              \o Chunk(IDAT, Zlib(Dynamic(<<Literal(0), Literal(1), Literal(255), Repeat(4, 2), Literal(0),
                                           Literal(1), Literal(0), Repeat(3, 1), Repeat(3, 2)>>)))
              \o Chunk(IEND, <<>>),
     wanted |-> [x |-> 7, y |-> 2,
                 pixels |-> FlattenSeq([i \in 1 .. 14 |->
                                LET v == <<1, 255, 1, 255, 1, 255, 0, 0, 0, 0, 0, 0, 0, 0>>[i] IN <<v, v, v>>])]]}
=============================================================================
