------------------------------ MODULE Deflate -------------------------------
(***************************************************************************)
(* The zlib streams inside PNG files: the compressor of stb_image_write.h  *)
(* and the decompressor of stb_image.h (both under examples/convolution).  *)
(* A stream is a sequence of bytes; the bit buffers of the code are        *)
(* sequences of bits, the next one first.                                  *)
(***************************************************************************)
EXTENDS Integers, Sequences, SequencesExt

CONSTANTS
    ZWindow,    \* how far back the compressor looks: 32768 in the code
    ZQuality    \* its quality: 8 in the code

\* A number as n bits, the least significant first; and the other way round.
Bits(v, n) == [i \in 1 .. n |-> (v \div 2^(i - 1)) % 2]
Number(bits) ==
    LET from[i \in 1 .. Len(bits) + 1] == IF i > Len(bits) THEN 0 ELSE bits[i] + 2 * from[i + 1]
    IN  from[1]

-----------------------------------------------------------------------------
\* The compressor.  Positions in the data count from 0.

lengthc == <<3, 4, 5, 6, 7, 8, 9, 10, 11, 13, 15, 17, 19, 23, 27, 31, 35, 43, 51, 59, 67, 83, 99,
             115, 131, 163, 195, 227, 258, 259>>
lengtheb == <<0, 0, 0, 0, 0, 0, 0, 0, 1, 1, 1, 1, 2, 2, 2, 2, 3, 3, 3, 3, 4, 4, 4, 4, 5, 5, 5, 5, 0>>
distc == <<1, 2, 3, 4, 5, 7, 9, 13, 17, 25, 33, 49, 65, 97, 129, 193, 257, 385, 513, 769, 1025, 1537,
           2049, 3073, 4097, 6145, 8193, 12289, 16385, 24577, 32768>>
disteb == <<0, 0, 0, 0, 1, 1, 2, 2, 3, 3, 4, 4, 5, 5, 6, 6, 7, 7, 8, 8, 9, 9, 10, 10, 11, 11, 12, 12,
            13, 13>>

\* stbiw__zlib_huffa: a Huffman code, its most significant bit first.
stbiw__zlib_huffa(code, n) == Reverse(Bits(code, n))

\* stbiw__zlib_huff: symbol n in the default code.
stbiw__zlib_huff(n) ==
    CASE n <= 143             -> stbiw__zlib_huffa(48 + n, 8)
      [] n \in 144 .. 255     -> stbiw__zlib_huffa(400 + n - 144, 9)
      [] n \in 256 .. 279     -> stbiw__zlib_huffa(n - 256, 7)
      [] n >= 280             -> stbiw__zlib_huffa(192 + n - 280, 8)

\* How many bytes at p and q agree.
stbiw__zlib_countm(data, p, q) ==
    LET limit == Min({Len(data) - q, 258})
        differ == {k \in 0 .. limit - 1 : data[p + k + 1] # data[q + k + 1]}
    IN  IF differ = {} THEN limit ELSE Min(differ)

\* A bucket of the hash table: the positions with the same three bytes.  (Others that
\* fall into the same bucket agree in fewer than three bytes and are never taken.)
stbiw__zhash(data, i) == SubSeq(data, i + 1, i + 3)

\* A full bucket loses its older half.
Trimmed(hlist) == IF Len(hlist) = 2 * ZQuality THEN SubSeq(hlist, ZQuality + 1, Len(hlist)) ELSE hlist

\* The code of a match, with the extra bits.
Match(best, d) ==
    LET j == Min({k \in 1 .. 29 : best <= lengthc[k + 1] - 1})
        k == Min({l \in 1 .. 30 : d <= distc[l + 1] - 1})
    IN  stbiw__zlib_huff(j - 1 + 257) \o Bits(best - lengthc[j], lengtheb[j])
        \o stbiw__zlib_huffa(k - 1, 5) \o Bits(d - distc[k], disteb[k])

\* A compressor is [data, i, table, bits]: its input, how far it has got, its hash
\* table and the bits it has put out, which begin with those of the last block, with
\* the default code.
Compressor(data) == [data |-> data, i |-> 0, table |-> <<>>, bits |-> <<1>> \o Bits(1, 2)]

MoreToMatch(e) == e.i < Len(e.data) - 3

\* One round of the loop: a match with an earlier place, unless the next byte has a
\* longer one, or a literal.
CompressNext(e) ==
    LET bucket(t, at) ==
            IF stbiw__zhash(e.data, at) \in DOMAIN t THEN t[stbiw__zhash(e.data, at)] ELSE <<>>
        count(p) == stbiw__zlib_countm(e.data, p, e.i)
        near == {p \in ToSet(bucket(e.table, e.i)) : p > e.i - ZWindow /\ count(p) >= 3}
        best == Max({count(p) : p \in near})
        bestloc == Max({p \in near : count(p) = best})
        table == (stbiw__zhash(e.data, e.i) :> Append(Trimmed(bucket(e.table, e.i)), e.i)) @@ e.table
        better == \E p \in ToSet(bucket(table, e.i + 1)) :
                     p > e.i - (ZWindow - 1) /\ stbiw__zlib_countm(e.data, p, e.i + 1) > best
    IN  IF near # {} /\ ~better
        THEN [e EXCEPT !.i = @ + best, !.table = table, !.bits = @ \o Match(best, e.i - bestloc)]
        ELSE [e EXCEPT !.i = @ + 1, !.table = table, !.bits = @ \o stbiw__zlib_huff(e.data[e.i + 1])]

\* Whole bytes, padded with zeros.
stbiw__zlib_flushf(bits) ==
    [k \in 1 .. (Len(bits) + 7) \div 8 |-> Number(SubSeq(bits, 8 * k - 7, Min({8 * k, Len(bits)})))]

\* The stream, when the loop has ended: the last bytes as literals, the end of the
\* block, and the Adler-32 of the data, which the decompressor below never looks at.
Compressed(e) ==
    LET rest == FlattenSeq([k \in 1 .. Len(e.data) - e.i |-> stbiw__zlib_huff(e.data[e.i + k])])
    IN  <<120, 94>> \o stbiw__zlib_flushf(e.bits \o rest \o stbiw__zlib_huff(256)) \o <<0, 0, 0, 0>>

-----------------------------------------------------------------------------
\* The decompressor.  A stbi__zbuf is [zbuffer, code_buffer, zout] with the bytes not
\* yet read, the bits read but not used, and the output; and with what it is doing
\* (at), whether this is the last block (final), and the codes of the block.

stbi__zlength_base == <<3, 4, 5, 6, 7, 8, 9, 10, 11, 13, 15, 17, 19, 23, 27, 31, 35, 43, 51, 59, 67, 83,
                        99, 115, 131, 163, 195, 227, 258, 0, 0>>
stbi__zlength_extra == <<0, 0, 0, 0, 0, 0, 0, 0, 1, 1, 1, 1, 2, 2, 2, 2, 3, 3, 3, 3, 4, 4, 4, 4, 5, 5, 5,
                         5, 0, 0, 0>>
stbi__zdist_base == <<1, 2, 3, 4, 5, 7, 9, 13, 17, 25, 33, 49, 65, 97, 129, 193, 257, 385, 513, 769, 1025,
                      1537, 2049, 3073, 4097, 6145, 8193, 12289, 16385, 24577, 0, 0>>
stbi__zdist_extra == <<0, 0, 0, 0, 1, 1, 2, 2, 3, 3, 4, 4, 5, 5, 6, 6, 7, 7, 8, 8, 9, 9, 10, 10, 11, 11, 12,
                       12, 13, 13, 0, 0>>

Failed(a) == [a EXCEPT !.at = "failed"]

\* stbi__fill_bits: whole bytes until there are more than 24 bits; stbi__zget8 gives 0
\* beyond the end.
stbi__fill_bits(a) ==
    LET n == (32 - Len(a.code_buffer)) \div 8
        byte(i) == IF i <= Len(a.zbuffer) THEN a.zbuffer[i] ELSE 0
    IN  [a EXCEPT !.code_buffer = @ \o [i \in 1 .. 8 * n |-> Bits(byte((i + 7) \div 8), 8)[((i - 1) % 8) + 1]],
                  !.zbuffer = SubSeq(@, n + 1, Len(@))]

\* Without the first n bits of the buffer.
Drop(a, n) == [a EXCEPT !.code_buffer = SubSeq(@, n + 1, Len(@))]

\* stbi__zreceive: the next n bits as a number (v), and the state after it (a).
stbi__zreceive(a, n) ==
    LET b == IF Len(a.code_buffer) < n THEN stbi__fill_bits(a) ELSE a
    IN  [v |-> Number(SubSeq(b.code_buffer, 1, n)), a |-> Drop(b, n)]

\* stbi__zbuild_huffman, for symbols 0, 1, ... with codes of the given sizes: the
\* symbols of each size, and the code of the first of them.  Sizes that no prefix code
\* has are refused.
stbi__zbuild_huffman(sizelist) ==
    LET all_symbols == [k \in 1 .. Len(sizelist) |-> k - 1]
        symbols == [i \in 1 .. 15 |-> SelectSeq(all_symbols, LAMBDA k : sizelist[k + 1] = i)]
        firstcode == FoldLeft(LAMBDA f, i : Append(f, 2 * (f[i] + Len(symbols[i]))), <<0>>,
                              [i \in 1 .. 14 |-> i])
    IN  [ok |-> \A i \in 1 .. 15 : /\ Len(symbols[i]) <= 2^i
                                  /\ symbols[i] # <<>> => firstcode[i] + Len(symbols[i]) - 1 < 2^i,
         symbols |-> symbols, firstcode |-> firstcode]

\* stbi__zhuffman_decode, by the table or the slow path: the next symbol, -1 if the
\* bits are no code.
stbi__zhuffman_decode(a, z) ==
    LET b == IF Len(a.code_buffer) < 16 THEN stbi__fill_bits(a) ELSE a
        nth(s) == Number(Reverse(SubSeq(b.code_buffer, 1, s))) - z.firstcode[s]
        fits == {s \in 1 .. 15 : nth(s) \in 0 .. Len(z.symbols[s]) - 1}
    IN  IF fits = {} THEN [v |-> -1, a |-> b]
        ELSE [v |-> z.symbols[Min(fits)][nth(Min(fits)) + 1], a |-> Drop(b, Min(fits))]

\* The len bytes that begin dist bytes back, which may overlap with themselves.
Copied(zout, dist, len) == [k \in 1 .. len |-> zout[Len(zout) - dist + 1 + ((k - 1) % dist)]]

\* What follows the end of a block.
BlockEnd(a) == [a EXCEPT !.at = IF a.final THEN "end" ELSE "block"]

\* stbi__parse_huffman_block, for one symbol.
stbi__parse_huffman_block(a) ==
    LET sym == stbi__zhuffman_decode(a, a.z_length)
        len == stbi__zreceive(sym.a, stbi__zlength_extra[sym.v - 256])
        back == stbi__zhuffman_decode(len.a, a.z_distance)
        dist == stbi__zreceive(back.a, stbi__zdist_extra[back.v + 1])
        length == stbi__zlength_base[sym.v - 256] + len.v
        distance == stbi__zdist_base[back.v + 1] + dist.v
    IN  CASE sym.v < 0 -> Failed(a)
          [] sym.v \in 0 .. 255 -> [sym.a EXCEPT !.zout = Append(@, sym.v)]
          [] sym.v = 256 -> BlockEnd(sym.a)
          [] OTHER -> IF back.v < 0 \/ Len(a.zout) < distance THEN Failed(a)
                      ELSE [dist.a EXCEPT !.zout = @ \o Copied(@, distance, length)]

-----------------------------------------------------------------------------
length_dezigzag == <<16, 17, 18, 0, 8, 7, 9, 6, 10, 5, 11, 4, 12, 3, 13, 2, 14, 1, 15>>

\* stbi__compute_huffman_codes, up to the code for the sizes of the codes.
stbi__compute_huffman_codes(a) ==
    LET hlit == stbi__zreceive(a, 5)
        hdist == stbi__zreceive(hlit.a, 5)
        hclen == stbi__zreceive(hdist.a, 4)
        receive[i \in 0 .. 19] ==
            IF i = 0 THEN [v |-> <<>>, a |-> hclen.a]
            ELSE LET before == receive[i - 1]
                     s == stbi__zreceive(before.a, 3)
                 IN  [v |-> Append(before.v, s.v), a |-> s.a]
        sizes == receive[hclen.v + 4]
        place(c) == CHOOSE i \in 1 .. 19 : length_dezigzag[i] = c
        z_codelength == stbi__zbuild_huffman([k \in 1 .. 19 |->
                            IF place(k - 1) <= Len(sizes.v) THEN sizes.v[place(k - 1)] ELSE 0])
    IN  IF z_codelength.ok
        THEN [sizes.a EXCEPT !.at = "lengths", !.z_length = z_codelength, !.lencodes = <<>>,
                             !.hlit = hlit.v + 257, !.hdist = hdist.v + 1]
        ELSE Failed(a)

\* The codes of the block, once all sizes are there.
WithCodes(a) ==
    LET z_length == stbi__zbuild_huffman(SubSeq(a.lencodes, 1, a.hlit))
        z_distance == stbi__zbuild_huffman(SubSeq(a.lencodes, a.hlit + 1, a.hlit + a.hdist))
    IN  IF z_length.ok /\ z_distance.ok
        THEN [a EXCEPT !.at = "symbols", !.z_length = z_length, !.z_distance = z_distance]
        ELSE Failed(a)

\* One round of its loop: a size, or several equal ones.
CodeLength(a) ==
    LET n == Len(a.lencodes)
        ntot == a.hlit + a.hdist
        sym == stbi__zhuffman_decode(a, a.z_length)
        extra == stbi__zreceive(sym.a, CASE sym.v = 16 -> 2 [] sym.v = 17 -> 3 [] OTHER -> 7)
        c == extra.v + IF sym.v = 18 THEN 11 ELSE 3
        fill == IF sym.v = 16 THEN a.lencodes[n] ELSE 0
        bad == sym.v = -1 \/ (sym.v = 16 /\ n = 0) \/ (sym.v >= 16 /\ ntot - n < c)
        next == IF sym.v < 16 THEN [sym.a EXCEPT !.lencodes = Append(@, sym.v)]
                ELSE [extra.a EXCEPT !.lencodes = @ \o [k \in 1 .. c |-> fill]]
    IN  IF bad THEN Failed(a)
        ELSE IF Len(next.lencodes) = ntot THEN WithCodes(next)
        ELSE next

\* stbi__parse_uncompressed_block: the rest of a byte is discarded; the header comes
\* from the bit buffer as far as it goes.
stbi__parse_uncompressed_block(a) ==
    LET b == Drop(a, Len(a.code_buffer) % 8)
        buffered == [k \in 1 .. Len(b.code_buffer) \div 8 |-> Number(SubSeq(b.code_buffer, 8 * k - 7, 8 * k))]
        header == SubSeq(buffered \o b.zbuffer \o <<0, 0, 0, 0>>, 1, 4)
        len == header[2] * 256 + header[1]
        nlen == header[4] * 256 + header[3]
        zbuffer == SubSeq(b.zbuffer, 5 - Len(buffered), Len(b.zbuffer))
    IN  IF nlen # 65535 - len \/ len > Len(zbuffer) THEN Failed(a)
        ELSE BlockEnd([b EXCEPT !.code_buffer = <<>>, !.zbuffer = SubSeq(zbuffer, len + 1, Len(zbuffer)),
                                !.zout = @ \o SubSeq(zbuffer, 1, len)])

\* stbi__parse_zlib_header.
stbi__parse_zlib_header(a) ==
    LET cmf == IF a.zbuffer = <<>> THEN 0 ELSE a.zbuffer[1]
        flg == IF Len(a.zbuffer) < 2 THEN 0 ELSE a.zbuffer[2]
    IN  IF (cmf * 256 + flg) % 31 # 0 \/ (flg \div 32) % 2 = 1 \/ cmf % 16 # 8 THEN Failed(a)
        ELSE [a EXCEPT !.zbuffer = SubSeq(@, 3, Len(@))]

stbi__zdefault_length ==
    stbi__zbuild_huffman([n \in 1 .. 288 |-> CASE n <= 144 -> 8 [] n \in 145 .. 256 -> 9
                                             [] n \in 257 .. 280 -> 7 [] n >= 281 -> 8])
stbi__zdefault_distance == stbi__zbuild_huffman([n \in 1 .. 32 |-> 5])

\* stbi__parse_zlib, at the beginning of a block.
stbi__parse_zlib(a) ==
    LET final == stbi__zreceive(a, 1)
        type == stbi__zreceive(final.a, 2)
        b == [type.a EXCEPT !.final = final.v = 1]
    IN  CASE type.v = 0 -> stbi__parse_uncompressed_block(b)
          [] type.v = 1 -> [b EXCEPT !.at = "symbols", !.z_length = stbi__zdefault_length,
                                     !.z_distance = stbi__zdefault_distance]
          [] type.v = 2 -> stbi__compute_huffman_codes(b)
          [] type.v = 3 -> Failed(a)

\* stbi__do_zlib, for a stream with or without a header.
stbi__do_zlib(buffer, parse_header) ==
    LET a == [zbuffer |-> buffer, code_buffer |-> <<>>, zout |-> <<>>, at |-> "block", final |-> FALSE,
              z_length |-> <<>>, z_distance |-> <<>>, lencodes |-> <<>>, hlit |-> 0, hdist |-> 0]
    IN  IF parse_header THEN stbi__parse_zlib_header(a) ELSE a
=============================================================================
