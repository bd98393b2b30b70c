-------------------------------- MODULE Png ---------------------------------
(***************************************************************************)
(* The image files of examples/convolution: stbi_write_png writes the      *)
(* result, and stbi_load reads the input, of which PNG files are modelled  *)
(* (stb_image_write.h and stb_image.h under examples/convolution).  Pixels *)
(* are sequences of samples, row by row, as in the code.  Checksums are    *)
(* zero, for the reader never looks at them.                               *)
(***************************************************************************)
EXTENDS Deflate

CONSTANTS
    Image,     \* images to be written: [x, y, pixels], with three samples for each pixel
    Files,     \* files made by others: [file, wanted], with the image in it
    BufLen     \* the reader's buffer: 128 bytes in the code

VARIABLES
    source,    \* what we begin with: [file, wanted], with no file if the image is to be written
    mode,      \* what is going on
    encoder,   \* the compressor of stbi_write_png
    png_file,  \* the file
    context,   \* stbi__context: [buffer, pos], bytes read ahead and the position in the file
    png,       \* what stbi__parse_png_file knows: see Fresh
    zbuf,      \* the decompressor
    loaded     \* the result, with no pixels for NULL

png_vars == <<source, mode, encoder, png_file, context, png, zbuf, loaded>>

Null == [x |-> 0, y |-> 0, pixels |-> <<>>]
req_comp == 3
Abs(v) == IF v < 0 THEN -v ELSE v

-----------------------------------------------------------------------------
\* The writer.

stbiw__paeth(a, b, c) ==
    LET p == a + b - c
        pa == Abs(p - a)
        pb == Abs(p - b)
        pc == Abs(p - c)
    IN  IF pa <= pb /\ pa <= pc THEN a ELSE IF pb <= pc THEN b ELSE c

\* stbiw__encode_png_line: row y, from 0, of an image with filter 0 to 4.  Types 5 and 6
\* are 3 and 4 in the first row; in the first pixel there is no byte to the left.
stbiw__encode_png_line(image, n, y, filter_type) ==
    LET width == image.x * n
        type == IF y # 0 THEN filter_type ELSE <<0, 1, 0, 5, 6>>[filter_type + 1]
        z(i) == image.pixels[y * width + i]
        up(i) == z(i - width)
        guess(i) ==
            IF i <= n
            THEN CASE type \in {0, 1, 5, 6} -> 0
                   [] type = 2 -> up(i)
                   [] type = 3 -> up(i) \div 2
                   [] type = 4 -> stbiw__paeth(0, up(i), 0)
            ELSE CASE type = 0 -> 0
                   [] type = 1 -> z(i - n)
                   [] type = 2 -> up(i)
                   [] type = 3 -> (z(i - n) + up(i)) \div 2
                   [] type = 4 -> stbiw__paeth(z(i - n), up(i), up(i - n))
                   [] type = 5 -> z(i - n) \div 2
                   [] type = 6 -> stbiw__paeth(z(i - n), 0, 0)
    IN  [i \in 1 .. width |-> (z(i) - guess(i)) % 256]

\* The sum of the bytes of a line, taken as signed.
Estimate(line) ==
    LET est[i \in 0 .. Len(line)] ==
            IF i = 0 THEN 0 ELSE est[i - 1] + IF line[i] < 128 THEN line[i] ELSE 256 - line[i]
    IN  est[Len(line)]

\* The lines of the image, each with the first of the best filters before it.
Filtered(image) ==
    LET line(y, f) == stbiw__encode_png_line(image, 3, y, f)
        est(y) == [f \in 0 .. 4 |-> Estimate(line(y, f))]
        best(e) == Min({f \in 0 .. 4 : \A g \in 0 .. 4 : e[f] <= e[g]})
        with(y, f) == <<f>> \o line(y, f)
    IN  FlattenSeq([j \in 1 .. image.y |-> with(j - 1, best(est(j - 1)))])

\* stbiw__wp32, and a chunk.
Big4(v) == <<v \div 16777216, (v \div 65536) % 256, (v \div 256) % 256, v % 256>>
Chunk(type, data) == Big4(Len(data)) \o type \o data \o <<0, 0, 0, 0>>

png_sig == <<137, 80, 78, 71, 13, 10, 26, 10>>
CgBI == <<67, 103, 66, 73>>
IHDR == <<73, 72, 68, 82>>
PLTE == <<80, 76, 84, 69>>
tRNS == <<116, 82, 78, 83>>
IDAT == <<73, 68, 65, 84>>
IEND == <<73, 69, 78, 68>>

\* stbi_write_png begins: the lines go to the compressor.
stbi_write_png ==
    /\ mode = "write"
    /\ encoder' = Compressor(Filtered(source.wanted))
    /\ mode' = "compress"
    /\ UNCHANGED <<source, png_file, context, png, zbuf, loaded>>

stbi_zlib_compress ==
    /\ mode = "compress" /\ MoreToMatch(encoder)
    /\ encoder' = CompressNext(encoder)
    /\ UNCHANGED <<source, mode, png_file, context, png, zbuf, loaded>>

\* stbi_write_png_to_mem.
Encoded(image, zlib) ==
    png_sig \o Chunk(IHDR, Big4(image.x) \o Big4(image.y) \o <<8, 2, 0, 0, 0>>)
            \o Chunk(IDAT, zlib) \o Chunk(IEND, <<>>)

\* stbi_write_png ends.  How much fwrite has written is not looked at: the file may be
\* any part of the data.
fwrite ==
    /\ mode = "compress" /\ ~MoreToMatch(encoder)
    /\ LET data == Encoded(source.wanted, Compressed(encoder))
       IN  \E len \in 0 .. Len(data) : png_file' = SubSeq(data, 1, len)
    /\ encoder' = Compressor(<<>>)
    /\ mode' = "load"
    /\ UNCHANGED <<source, context, png, zbuf, loaded>>

-----------------------------------------------------------------------------
\* The reader's context.  Each reading operator gives what it read (v) and the context
\* after it (c).

stbi__refill_buffer(c) ==
    LET end == Min({c.pos + BufLen, Len(png_file)})
    IN  [buffer |-> SubSeq(png_file, c.pos + 1, end), pos |-> Max({c.pos, end})]

\* At the end of the file there are only zeros.
stbi__get8(c) ==
    LET d == IF c.buffer = <<>> THEN stbi__refill_buffer(c) ELSE c
    IN  IF d.buffer = <<>> THEN [v |-> 0, c |-> d]
        ELSE [v |-> Head(d.buffer), c |-> [d EXCEPT !.buffer = Tail(@)]]

\* n calls of stbi__get8.
Get(c, n) ==
    LET get[k \in 0 .. n] ==
            IF k = 0 THEN [v |-> <<>>, c |-> c]
            ELSE LET before == get[k - 1]
                     byte == stbi__get8(before.c)
                 IN  [v |-> Append(before.v, byte.v), c |-> byte.c]
    IN  get[n]

stbi__get32be(bytes) == ((bytes[1] * 256 + bytes[2]) * 256 + bytes[3]) * 256 + bytes[4]

stbi__skip(c, n) ==
    IF Len(c.buffer) < n THEN [buffer |-> <<>>, pos |-> c.pos + n - Len(c.buffer)]
    ELSE [c EXCEPT !.buffer = SubSeq(@, n + 1, Len(@))]

\* Reads n bytes around the buffer if it has too few; v is shorter if the file ends.
stbi__getn(c, n) ==
    LET blen == Len(c.buffer)
        end == Min({c.pos + n - blen, Len(png_file)})
    IN  IF blen < n
        THEN [v |-> c.buffer \o SubSeq(png_file, c.pos + 1, end),
              c |-> [buffer |-> <<>>, pos |-> Max({c.pos, end})]]
        ELSE [v |-> SubSeq(c.buffer, 1, n), c |-> [c EXCEPT !.buffer = SubSeq(@, n + 1, blen)]]

\* The state of stbi__parse_png_file before the first chunk.  The palette has its
\* alpha values apart; idata is a sequence of the IDAT chunks.  From image_data the passes
\* that remain make the pixels in out.
Fresh ==
    [first |-> TRUE, x |-> 0, y |-> 0, img_n |-> 0, depth |-> 0, color |-> 0, interlace |-> 0,
     palette |-> <<>>, pal_img_n |-> 0, alpha |-> <<>>, has_trans |-> FALSE, tc |-> <<>>,
     idata |-> <<>>, is_iphone |-> FALSE, image_data |-> <<>>, passes |-> <<>>, out |-> <<>>]

Reject == loaded' = Null /\ mode' = "done" /\ UNCHANGED <<png, context, zbuf>>

\* The end of a chunk: the checksum is read and skipped.
Accept(p, c) == png' = p /\ context' = Get(c, 4).c /\ UNCHANGED <<mode, zbuf, loaded>>

stbi__check_png_header(c) == [ok |-> Get(c, 8).v = png_sig, c |-> Get(c, 8).c]

\* After stbi__png_test has looked at the file, stbi__rewind only goes back to the beginning
\* of the buffer.  No other format fits what is not even a signature.
stbi__load_main(start) ==
    LET test == stbi__check_png_header(start)
    IN  [ok |-> test.ok, c |-> stbi__check_png_header([start EXCEPT !.pos = test.c.pos]).c]

stbi_load ==
    /\ mode = "load"
    /\ LET main == stbi__load_main(stbi__refill_buffer([buffer |-> <<>>, pos |-> 0]))
       IN  IF ~main.ok THEN Reject
           ELSE context' = main.c /\ png' = Fresh /\ mode' = "chunks" /\ UNCHANGED <<zbuf, loaded>>
    /\ UNCHANGED <<source, encoder, png_file>>

-----------------------------------------------------------------------------
\* stbi__parse_png_file: one action for each type of chunk.

Header == Get(context, 8)
Length == stbi__get32be(SubSeq(Header.v, 1, 4))
AtChunk(type) == mode = "chunks" /\ SubSeq(Header.v, 5, 8) = type
Others == UNCHANGED <<source, encoder, png_file>>

chunk_CgBI ==
    /\ AtChunk(CgBI)
    /\ Accept([png EXCEPT !.is_iphone = TRUE], stbi__skip(Header.c, Length))
    /\ Others

chunk_IHDR ==
    /\ AtChunk(IHDR)
    /\ LET h == Get(Header.c, 13)
           x == stbi__get32be(SubSeq(h.v, 1, 4))
           y == stbi__get32be(SubSeq(h.v, 5, 8))
           depth == h.v[9]
           color == h.v[10]
           interlace == h.v[13]
           img_n == IF color = 3 THEN 1
                    ELSE (IF (color \div 2) % 2 = 1 THEN 3 ELSE 1) + (IF color >= 4 THEN 1 ELSE 0)
       IN  IF \/ ~png.first \/ Length # 13
              \/ x > 2^24 \/ y > 2^24 \/ x = 0 \/ y = 0
              \/ depth \notin {1, 2, 4, 8, 16}
              \/ color > 6 \/ (color = 3 /\ depth = 16) \/ (color # 3 /\ color % 2 = 1)
              \/ h.v[11] # 0 \/ h.v[12] # 0 \/ interlace > 1
              \/ (2^30 \div x) \div (IF color = 3 THEN 4 ELSE img_n) < y
           THEN Reject
           ELSE Accept([png EXCEPT !.first = FALSE, !.x = x, !.y = y, !.depth = depth, !.color = color,
                                   !.interlace = interlace, !.img_n = img_n,
                                   !.pal_img_n = IF color = 3 THEN 3 ELSE 0], h.c)
    /\ Others

chunk_PLTE ==
    /\ AtChunk(PLTE)
    /\ LET p == Get(Header.c, Length)
       IN  IF png.first \/ Length > 768 \/ Length % 3 # 0 THEN Reject
           ELSE Accept([png EXCEPT !.palette = [i \in 1 .. Length \div 3 |-> SubSeq(p.v, 3 * i - 2, 3 * i)],
                                   !.alpha = [i \in 1 .. Length \div 3 |-> 255]], p.c)
    /\ Others

stbi__depth_scale_table == <<255, 85, 0, 17, 0, 0, 0, 1>>

chunk_tRNS ==
    /\ AtChunk(tRNS)
    /\ LET t == Get(Header.c, Length)
           wide == [k \in 1 .. Length \div 2 |-> t.v[2 * k - 1] * 256 + t.v[2 * k]]
           narrow == [k \in 1 .. Length \div 2 |-> (t.v[2 * k] * stbi__depth_scale_table[png.depth]) % 256]
       IN  IF png.first \/ png.idata # <<>> THEN Reject
           ELSE IF png.pal_img_n # 0
           THEN IF png.palette = <<>> \/ Length > Len(png.palette) THEN Reject
                ELSE Accept([png EXCEPT !.pal_img_n = 4, !.alpha = t.v \o SubSeq(@, Length + 1, Len(@))], t.c)
           ELSE IF png.img_n % 2 = 0 \/ Length # 2 * png.img_n THEN Reject
           ELSE Accept([png EXCEPT !.has_trans = TRUE, !.tc = IF png.depth = 16 THEN wide ELSE narrow], t.c)
    /\ Others

chunk_IDAT ==
    /\ AtChunk(IDAT)
    /\ LET d == stbi__getn(Header.c, Length)
       IN  IF png.first \/ (png.pal_img_n # 0 /\ png.palette = <<>>) \/ Len(d.v) < Length THEN Reject
           ELSE Accept([png EXCEPT !.idata = Append(@, d.v)], d.c)
    /\ Others

\* The data is complete, and is decompressed.
chunk_IEND ==
    /\ AtChunk(IEND)
    /\ IF png.first \/ png.idata = <<>> THEN Reject
       ELSE /\ zbuf' = stbi__do_zlib(FlattenSeq(png.idata), ~png.is_iphone)
            /\ mode' = "inflate"
            /\ UNCHANGED <<png, context, loaded>>
    /\ Others

\* Chunks it does not know are skipped, unless they are critical (an upper-case letter
\* first).
chunk_other ==
    /\ \A type \in {CgBI, IHDR, PLTE, tRNS, IDAT, IEND} : ~AtChunk(type)
    /\ mode = "chunks"
    /\ IF png.first \/ (Header.v[5] \div 32) % 2 = 0 THEN Reject
       ELSE Accept(png, stbi__skip(Header.c, Length))
    /\ Others

stbi_zlib_decode ==
    /\ mode = "inflate" /\ zbuf.at \in {"block", "lengths", "symbols"}
    /\ zbuf' = CASE zbuf.at = "block" -> stbi__parse_zlib(zbuf)
                 [] zbuf.at = "lengths" -> CodeLength(zbuf)
                 [] zbuf.at = "symbols" -> stbi__parse_huffman_block(zbuf)
    /\ UNCHANGED <<mode, context, png, loaded>> /\ Others

-----------------------------------------------------------------------------
\* From the decompressed data to pixels.

stbi__paeth(a, b, c) ==
    LET p == a + b - c
        pa == Abs(p - a)
        pb == Abs(p - b)
        pc == Abs(p - c)
    IN  IF pa <= pb /\ pa <= pc THEN a ELSE IF pb <= pc THEN b ELSE c

first_row_filter == <<0, 1, 0, 5, 6>>

\* What a filter adds, from the bytes left, above, and above left, and in the first pixel.
Added(filter, left, up, corner) ==
    CASE filter = 0 -> 0
      [] filter = 1 -> left
      [] filter = 2 -> up
      [] filter = 3 -> (up + left) \div 2
      [] filter = 4 -> stbi__paeth(left, up, corner)
      [] filter = 5 -> left \div 2
      [] filter = 6 -> stbi__paeth(left, 0, 0)
AddedFirst(filter, up) ==
    CASE filter \in {0, 1, 5, 6} -> 0
      [] filter = 2 -> up
      [] filter = 3 -> up \div 2
      [] filter = 4 -> stbi__paeth(0, up, 0)

\* A transparent colour needs an alpha value.
img_out_n(p) == p.img_n + IF p.has_trans THEN 1 ELSE 0

\* y rows of `width` bytes, of which n make up a pixel, each with its filter before it.
Defiltered(raw, width, y, n) ==
    LET rows[j \in 0 .. y] ==
            IF j = 0 THEN <<>>
            ELSE LET prior == rows[j - 1]
                     at == (j - 1) * (width + 1) + 1
                     filter == IF j = 1 THEN first_row_filter[raw[at] + 1] ELSE raw[at]
                     up(i) == IF j = 1 THEN 0 ELSE prior[(j - 2) * width + i]
                     cur[i \in 0 .. width] ==
                        IF i = 0 THEN <<>>
                        ELSE LET done == cur[i - 1]
                                 more == IF i <= n THEN AddedFirst(filter, up(i))
                                         ELSE Added(filter, done[i - n], up(i), up(i - n))
                             IN  Append(done, (raw[at + i] + more) % 256)
                 IN  prior \o cur[width]
    IN  rows[y]


\* How many samples of fewer than 8 bits a row has: the last byte may hold more.
RowSamples(p, x) == x

Put(bytes, i, v) == [h \in DOMAIN bytes |-> IF h = i THEN v ELSE bytes[h]]

\* Samples of fewer than 8 bits are unpacked in place, row after row.  The bytes of a row
\* are at its right end; they are unpacked to its left end and then moved apart, from the
\* last, for an alpha of 255.  Three samples of fewer than 8 bits are not PNG.
Unpacked(p, packed, x, y, width, out_n) ==
    LET cur(j) == (j - 1) * x * out_n
        in(j, k) == j * x * out_n - width + (k - 1) \div (8 \div p.depth) + 1
        shift(k) == 8 - p.depth * (((k - 1) % (8 \div p.depth)) + 1)
        scale == IF p.color = 0 THEN stbi__depth_scale_table[p.depth] ELSE 1
        sample(j, k, out) == scale * ((out[in(j, k)] \div 2^shift(k)) % 2^p.depth)
        expand(j, out) ==
            LET done[k \in 0 .. RowSamples(p, x)] ==
                    IF k = 0 THEN out
                    ELSE LET so_far == done[k - 1] IN Put(so_far, cur(j) + k, sample(j, k, so_far))
            IN  done[RowSamples(p, x)]
        apart(j, out) ==
            LET done[q \in 0 .. x] ==
                    IF q = x THEN out
                    ELSE LET so_far == done[q + 1]
                         IN  [so_far EXCEPT ![cur(j) + 2 * q + 2] = 255,
                                            ![cur(j) + 2 * q + 1] = so_far[cur(j) + q + 1]]
            IN  done[0]
        rows[j \in 0 .. y] ==
            IF j = 0
            THEN FlattenSeq([l \in 1 .. y |-> [i \in 1 .. x * out_n - width |-> 0]
                                              \o SubSeq(packed, (l - 1) * width + 1, l * width)])
            ELSE LET out == expand(j, rows[j - 1]) IN IF out_n = p.img_n THEN out ELSE apart(j, out)
    IN  rows[y]

\* The pixels of x by y of which `out` holds the rows, each with its alpha if it has none.
Pixels(p, out, x, y, width) ==
    LET out_n == img_out_n(p)
        sample(k) == IF p.depth = 16 THEN out[2 * k - 1] * 256 + out[2 * k] ELSE out[k]
        pixel(i) == [c \in 1 .. out_n |->
                        IF c > p.img_n THEN 2^p.depth - 1 ELSE sample((i - 1) * p.img_n + c)]
    IN  IF p.depth < 8
        THEN LET all == Unpacked(p, out, x, y, width, out_n)
             IN  [i \in 1 .. x * y |-> SubSeq(all, (i - 1) * out_n + 1, i * out_n)]
        ELSE [i \in 1 .. x * y |-> pixel(i)]

\* Where the pixels of a pass go; the last is for images that are not interlaced.
xorig == <<0, 4, 0, 2, 0, 1, 0, 0>>
yorig == <<0, 0, 4, 0, 2, 0, 1, 0>>
xspc == <<8, 8, 4, 4, 2, 2, 1, 1>>
yspc == <<8, 8, 8, 4, 4, 2, 2, 1>>
Placed(p, k, x, pixels) ==
    [i \in 1 .. p.x * p.y |->
        LET out_x == (i - 1) % p.x
            out_y == (i - 1) \div p.x
        IN  IF /\ out_x >= xorig[k] /\ (out_x - xorig[k]) % xspc[k] = 0
               /\ out_y >= yorig[k] /\ (out_y - yorig[k]) % yspc[k] = 0
            THEN pixels[((out_y - yorig[k]) \div yspc[k]) * x + (out_x - xorig[k]) \div xspc[k] + 1]
            ELSE p.out[i]]

stbi__create_png_image ==
    /\ mode = "inflate" /\ zbuf.at \in {"end", "failed"}
    /\ IF zbuf.at = "failed" THEN Reject
       ELSE /\ png' = [png EXCEPT !.image_data = zbuf.zout, !.out = [i \in 1 .. png.x * png.y |-> <<>>],
                                  !.passes = IF png.interlace = 0 THEN <<8>> ELSE <<1, 2, 3, 4, 5, 6, 7>>]
            /\ mode' = "image" /\ UNCHANGED <<context, zbuf, loaded>>
    /\ Others

\* stbi__create_png_image_raw, for a pass that is not empty: there must be enough data, with
\* good filters.
stbi__create_png_image_raw ==
    /\ mode = "image" /\ png.passes # <<>>
    /\ LET k == Head(png.passes)
           x == (png.x - xorig[k] + xspc[k] - 1) \div xspc[k]
           y == (png.y - yorig[k] + yspc[k] - 1) \div yspc[k]
           raw == png.image_data
           width == (png.img_n * x * png.depth + 7) \div 8
           n == IF png.depth < 8 THEN 1 ELSE png.img_n * (png.depth \div 8)
           img_len == (width + 1) * y
           todo == [png EXCEPT !.passes = Tail(@)]
           next == [todo EXCEPT !.image_data = SubSeq(@, img_len + 1, Len(@))]
       IN  IF x = 0 \/ y = 0 THEN png' = todo /\ UNCHANGED <<mode, context, zbuf, loaded>>
           ELSE IF Len(raw) < img_len \/ \E j \in 0 .. y - 1 : raw[j * (width + 1) + 1] > 4 THEN Reject
           ELSE /\ png' = [next EXCEPT !.out = Placed(png, k, x, Pixels(png, Defiltered(raw, width, y, n),
                                                                       x, y, width))]
                /\ UNCHANGED <<mode, context, zbuf, loaded>>
    /\ Others

\* The colour that stands for no colour.
stbi__compute_transparency(p, pixel) ==
    IF SubSeq(pixel, 1, p.img_n) = p.tc THEN [pixel EXCEPT ![p.img_n + 1] = 0] ELSE pixel

\* stbi_convert_iphone_png_to_rgb, which would set it, is not called.
stbi__de_iphone_flag == FALSE

\* Blue, green and red to red, green and blue.
stbi__de_iphone(pixel) == [pixel EXCEPT ![1] = pixel[3], ![3] = pixel[1]]

stbi__expand_png_palette(p, pixel) == p.palette[pixel[1] + 1]

\* To the three samples that convolution asks for.
stbi__convert_format(pixel) ==
    IF Len(pixel) <= 2 THEN <<pixel[1], pixel[1], pixel[1]>> ELSE SubSeq(pixel, 1, req_comp)

stbi__convert_16_to_8(p, v) == IF p.depth = 16 THEN v \div 256 ELSE v

\* The end of stbi__parse_png_file, stbi__do_png and stbi__load_and_postprocess_8bit.
stbi__do_png ==
    /\ mode = "image" /\ png.passes = <<>>
    /\ LET seen(pixel) == IF png.has_trans THEN stbi__compute_transparency(png, pixel) ELSE pixel
           rgb(pixel) == IF png.is_iphone /\ stbi__de_iphone_flag /\ img_out_n(png) > 2
                         THEN stbi__de_iphone(pixel) ELSE pixel
           color(pixel) == IF png.pal_img_n # 0 THEN stbi__expand_png_palette(png, pixel) ELSE pixel
           pixels == [i \in DOMAIN png.out |-> stbi__convert_format(color(rgb(seen(png.out[i]))))]
       IN  loaded' = [x |-> png.x, y |-> png.y,
                      pixels |-> [k \in 1 .. req_comp * Len(png.out) |->
                         stbi__convert_16_to_8(png, pixels[(k - 1) \div req_comp + 1][((k - 1) % req_comp) + 1])]]
    /\ mode' = "done" /\ UNCHANGED <<png, context, zbuf>>
    /\ Others

-----------------------------------------------------------------------------
PngStart ==
    /\ encoder = Compressor(<<>>)
    /\ png_file = source.file
    /\ context = [buffer |-> <<>>, pos |-> 0]
    /\ png = Fresh
    /\ zbuf = stbi__do_zlib(<<>>, FALSE)
    /\ loaded = Null

PngInit ==
    /\ \/ \E image \in Image : source = [file |-> <<>>, wanted |-> image] /\ mode = "write"
       \/ source \in Files /\ mode = "load"
    /\ PngStart

PngDone == mode = "done" /\ UNCHANGED png_vars

PngNext ==
    \/ PngDone
    \/ stbi_write_png \/ stbi_zlib_compress \/ fwrite
    \/ stbi_load
    \/ chunk_CgBI \/ chunk_IHDR \/ chunk_PLTE \/ chunk_tRNS \/ chunk_IDAT \/ chunk_IEND \/ chunk_other
    \/ stbi_zlib_decode \/ stbi__create_png_image \/ stbi__create_png_image_raw \/ stbi__do_png

\* An image with red and blue exchanged.
RedBlueSwapped(image) ==
    [image EXCEPT !.pixels = [k \in DOMAIN @ |-> CASE k % 3 = 1 -> @[k + 2]
                                                   [] k % 3 = 2 -> @[k]
                                                   [] k % 3 = 0 -> @[k - 2]]]

=============================================================================
