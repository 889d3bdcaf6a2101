# libhuffman: specifications, model checking and proofs

libhuffman compresses a stream block by block: it counts the bytes of a block,
builds a Huffman tree of the counts, writes the tree and then the code words of
the bytes. A Python package wraps it in file objects. This directory holds TLA+
modules translated from the C sources (`src/*.c`, `include/huffman/*.h`) and from
`huffmanfile/huffmanfile.py`, the TLC configurations that check them on
small instances, and proofs, checked by TLAPS, that the main properties hold for
every value of the constants.

Paths are those of the repository; `src/tree.c:324` is line 324 of that file.

## Inventory

| part | state | operations | hard about it |
|---|---|---|---|
| tree construction, histogram (`tree.c`, `histogram.c`) | frequencies consumed in place, `start`, shadow tree, pointers, leaves, root | populate, `huf_tree_from_histogram`, reset, free | unguarded search loop, fixed arrays filled to the last slot, ties, reuse from block to block, allocation failure half way |
| code words, serialized trees (`tree.c`) | none | node to string, serialize, deserialize | the length limit, truncated and damaged trees |
| buffered writer (`bufio.c`) | buffer, length, processed counter | write, write_uint8, flush, free | order of buffered and direct writes, full/empty/no buffer, the sink failing between the steps |
| buffered reader (`bufio.c`) | buffer, length, offset, processed counter | read, read_uint8, free | reads served in two parts, short answers, what is stale in the buffer |
| bit buffer (`bufio.c`) | bits, offset | bit write, reset | byte boundaries, padding of a block |
| memory stream (`io.c`) | block, cap, len, off | open, write (growing), read, rewind, close | growth and its failure, position after a rewind |
| descriptor stream (`io.c`) | a descriptor | open, read, write, close | partial writes, short and failing reads |
| symbol mapping (`symbol.c`) | code word per byte | insert, get, reset, free | stale words of an earlier block |
| encoder (`encoder.c`) | all of the above, bytes left to read | `huf_encode` | many steps, any of which may fail, block sizes |
| decoder (`decoder.c`) | reader, writer, tree, position in the tree | `huf_decode` | loops driven by what the stream says, cut and damaged streams |
| memory of a call (`encoder.c`, `decoder.c`, `symbol.c`, `config.c`, `malloc.c`) | what is allocated, which pointers own it | the init and free functions, the resets between blocks | failure of any allocation, of any step of any block, one common way out |
| errors, routine macros (`errors.c`, `sys.h`) | none | the jump to the end of a function | |
| Python compressor, decompressor (`huffmanfile/huffmanfile.py`) | two memory streams each | compress, flush, decompress | bytes and positions kept between calls, and after a call that failed |
| Python file (`huffmanfile/huffmanfile.py`) | mode, file object and its owner | open, write, read, close | several sessions on one file, failures at any call, a file object that takes less than it is given |

The encoder owns a histogram, a tree, a mapping, a bit buffer, a buffered reader
over `config->reader` and a buffered writer over `config->writer`. The decoder
owns a tree and the two buffers. The buffers call the `read` and `write`
functions of a `huf_read_writer_t`, which are those of a memory stream or of a
descriptor. The C library keeps nothing between two calls; the Python objects do,
in the memory streams they hand to it again and again. There are no threads and
no timeouts. The hard behaviours are long sequences of small steps on shared
state, failures between any two of them, numeric edges, and what a later call or
a later decoder makes of a stream that was left unfinished or was damaged.
`PROJECT.json` lists these hazards line by line.

What makes each part correct:

* construction: it stays inside its arrays, picks the two lightest slots, builds
  a forest and in the end one optimal tree for this block alone, frees exactly
  what it allocated, and returns;
* buffers and memory stream: bytes come out in the order they went in, none
  lost, repeated or invented, whatever fails and is repeated;
* encoder: its output is the concatenation of the encodings of the blocks, or a
  prefix of it after an error;
* decoder: it restores the data, or an error; never bytes that were not there;
  it returns on every stream, and follows no NULL root on one of the encoder's;
* memory of a call: nothing is released twice, and what a failure leaves behind
  does not grow with the data;
* Python objects: what is read is what was written, in order, a failed call
  never damages what was stored before it or is stored after it, and a close
  that returns has saved everything.

## Modules

| module | models | notes |
|---|---|---|
| `HuffmanTree` | `huf_tree_from_histogram` with `huf_histogram_populate/reset`, `huf_tree_reset/free` | a node is its slot in `shadow_tree`; one action per loop iteration; with the reference for optimality (cheapest code lengths under Kraft's inequality) |
| `HuffmanTreeProofs` | theorems about `HuffmanTree` | |
| `ByteStream`, `ByteStreamProofs` | a stream whose bytes are known by position; lemmas about its runs, and those every proof over data rests on: induction, recursive definitions, quotients, prefixes | the buffers copy bytes and never look at them |
| `Pipe` | the abstract specification of every buffer: bytes come out in order | `RestartableSpec` for a stream that can be rewound |
| `BufioWriter`, `BufioWriterProofs` | the write side of `bufio.c` over a sink that may fail, with part of the bytes taken or not | one action per step of a call with at most one call of the sink |
| `BufioReader`, `BufioReaderProofs` | the read side over a source that may answer short or fail | one action per call: it calls the source at most once |
| `MemStream`, `MemStreamProofs` | the memory stream | one action per call |
| `HuffmanCode` | trees, code words, serialization, integers and bits as bytes: operators only | the tree of a histogram in declarative form |
| `Encoder` | `huf_encode` | one action per call of the reader or writer, one per merge, one per bit |
| `Decoder` | `huf_decode` | one action per read, one per bit |
| `Codec`, `MCCodec`, `CodecProofs` | the encoder's output handed to the decoder, whole, cut short by an error of the encoder, or with a stretch of it read as zeros | both calls, with the reference encoding |
| `Lifecycle`, `LifecycleProofs` | the memory of one call of `huf_encode` or `huf_decode` | one action per allocation of the initialisation, per code word, per step of a block and per part released |
| `BlockStream` | a compressed stream as blocks of a header and the code of each byte: operators only | what `Codec` shows of a block is taken as given |
| `HuffmanCompressor`, `HuffmanDecompressor` | the two Python classes with their memory streams, as actions on their own variables | one disjoint action per way a call may end |
| `HuffmanFile`, `HuffmanFileProofs` | `HuffmanFile` over one file, composed of the two | one action per method, but for `close()`, which has its body and its `finally` |

`PROJECT.json` maps every definition to the lines it stands for. Variables keep
the names of the code where the module has one for them. Names that differ:
`live` (slots whose node is allocated), `want` (length of the call in progress),
`shape` (the decoder's tree), `dpc`, `epc`, `pc` (where the control is), `cin`,
`coff`, `cout` and `din`, `doff`, `dout` (content and read position of `istream`,
content of `ostream`, of the compressor and the decompressor).

How the modules rest on each other. `Encoder` and `Decoder` do not contain the
buffers. They use what the buffers are proved to be. A read delivers the next
bytes of the source and counts them (`ReaderImplementsPipe`,
`CounterTellsEndHolds`), or fails. It fails when there are too few, and also when
the source, like `read(2)`, answers with fewer bytes than it was asked for though more
are to come (`bufio.c:251`, `:271`): `FailsOnlyAtEndHolds` leaves these two
cases, and only the first for a read of one byte. `Encoder` and `Decoder` call the
first result `source`, the second `short`; a `short` read may come at any
read of more than a byte. What
the sink holds is a prefix of what was written, and all of it after a successful
flush (`WriterImplementsPipe`, `FlushCompletesHolds`). An error of the call leaves
an arbitrary such prefix. A `read(2)` that fails and passes for a success
(`reader_fault`) is not in `Encoder` and `Decoder`. They use the tree of `HuffmanCode`, to which the
loops of `HuffmanTree` lead (`BuildsTree`, proved as `TreeIsBuilt`).

Abstractions. A byte has `ByteBits` bits, `size_t` and `int16_t` have
`SizeWidth` and `IntWidth` bytes. With two bits there are four byte values, so that
a block with all of them, the edge of the tree format, is in reach; all
relations between the sizes (`HUF_BTREE_LEN` = 4 * `HUF_ASCII_COUNT`, two slots
per byte value) are kept. In `Encoder` a write beyond `tree_head` is undefined:
the call goes on or ends there. In `Decoder` following the NULL root of an empty
tree ends the model (`dpc = "undefined"`), and so in `Lifecycle`.

`Lifecycle` names a block of memory after the pointer that owns it, so that
`heap` is what is allocated and `pointers` what the program could still reach or
release. The nodes of a tree are one block there (`HuffmanTree` follows each
of them). It says nothing of the data: a block of input has any set of byte
values and any step of it may fail.

In `BlockStream` the header of a block of n bytes is the number -n and the
code of a byte is the byte's position in all data ever written. The package never
looks at these bytes, it only moves them; with the positions, a byte that is
lost, repeated or displaced and a block that is cut or run into by another one are
visible. A code word may share a byte of the file with its neighbour, which the
model does not show: a cut falls between two code words. That cuts inside a byte
are noticed is shown by `Codec`. `HuffmanDecompressor` decodes from the middle of
a block, after a failure, to `Unknown`: one byte that is in no data.
`HuffmanFile` does not read a file in which a block is cut in the middle of
the file, for the same reason. Its memory streams grow to what they need or fail.
That a growth may be too small is the subject of `mem_long_writes`.
`close()` is two actions. `CloseWriting` or `CloseReading` is the body of its `try`,
which may raise; `CloseFp` is the `finally`, in which the close of a file opened by name may
raise in turn and lose an end of what was written since it was opened.

## Runs

Passing:

| run | shows | bounds and why they are enough |
|---|---|---|
| `tree` | array bounds, choice of the two lightest, forest, coverage, lengths of the words, optimality, exact release, the same tree as `HuffmanCode`, the call returns | four byte values, counts 0..3: every number of used values from none to all, all tie patterns and skews of a tree with up to eight nodes, failures of allocation in every merge, any number of blocks on one tree |
| `writer` | nothing lost or repeated, flush complete, is a pipe | capacity 3, writes of 0..5: shorter than, as long as and longer than the buffer and what is left of it; 12 bytes fill and evict the buffer several times |
| `reader` | what was read ahead comes next, the counter tells the end of the source, without a short answer failures only there, is a pipe | capacity 3, reads of 0..5, a source of 14 bytes with short answers; that over a source without them no read fails early at all is only proved (`FailsOnlyAtEndHolds`) |
| `mem` | holds what was written, is a restartable pipe, length within capacity | capacities 2 and 3, writes up to 2, 9 bytes: at least two growths, each of which may fail |
| `codec` | each byte has a code word, the stream is the reference encoding, round trip, no invented byte, cuts are noticed, no NULL root or missing branch is met, both calls return; on a damaged stream the decoder stays within a block and a byte | contents of up to three bytes of two values, and longer skewed, tied and full ones, and one whose first block ends inside a byte with another block after it; block sizes 0 (the whole), 1, 2, 3; a source one byte short of the announced length; failure at every step of either call, short answers of the source among them; for two contents any stretch of three bytes (more than a header field) read as zeros |
| `lifecycle` | no double release, at most one block of memory left by a failed call and none by another, a call that was initialised returns | two byte values, so that a code word fails with others made before and still to make; none to three blocks: the first, one between, the last; both buffers present or not; every allocation, read and write may fail |
| `file` | the file is whole blocks in order, regular writes lose nothing, reads deliver a prefix of it, a close whose body raises nothing has saved what was kept | blocks of 4; writes of 2, 5 and 8 bytes: less than a block, more than one, two blocks at once; two sessions, each truncating or appending, ten bytes in all; reads of 3 and of a default of 6, shorter and longer than a block with its header; an owned or a given file object; failure of every call, of the file object's own close too |

Violations, each a disagreement of the code with the text quoted in
`PROJECT.json`:

| run | what happens |
|---|---|
| `codec_full_block` | a block in which every byte value occurs has a tree of 4 * 256 + 1 = 1025 elements, one more than `HUF_BTREE_LEN`: `huf_encode` writes past `tree_head` and the decoder refuses the tree (`decoder.c:237`) |
| `reader_fault` | a failing `read(2)` passes for a successful one (`io.c:23`), the buffer then hands out bytes nobody read |
| `mem_long_writes` | a write longer than the stream's capacity may grow the block to less than it needs (`io.c:79-83`); an encoder with an unbuffered output into a small stream makes such writes, `HuffmanCompressor` with a small block size among them: with `blocksize` 10 the block has room for 20 bytes when the tree of two byte values is written, and needs 28 |
| `compressor_loss` | a piece of data that does not fill the block with what is already kept is stored only in its last bytes, as many as were kept before: the slice of `huffmanfile.py:340` starts at a negative index |
| `file_end` | a read at the end of the file raises instead of returning nothing: the input stream of the decompressor is never rewound, so the announced length is that of all chunks so far (`huffmanfile.py:391`) |

The properties of `codec` are stated around the first: `RoundTrip` excludes blocks with
every byte value. The step from the NULL root of an empty tree
(`decoder.c:237`, see below) is not excluded but bounded. `BothReturn` and `ReadyReturns` let a
call end in it, so they do not tell whether it is taken; `CorruptOnlyIfDamaged` says that
only a damaged stream leads there, not one that `huf_encode` wrote, whole or cut. `ReadyReturns`
starts after the initialisation, whose failure is the other step of this kind.

The properties of `file` are stated around the last two. `NothingLost` speaks of
regular writes, all of at least a block or all of one length that divides it,
which keep the index of the slice from being negative or make it harmless;
`compressor_loss` shows that others lose data. `ReadsPrefix` says what reading delivers
before it fails, not that it delivers everything: for a file that is read in more
than one chunk it does not. It ends at the first chunk that the
decompressor's input stream refuses for lack of memory (`gap`), which is gone from
the file: the next one is decoded as if it followed the one before.
`CloseReports` says that the body of a close that raises nothing has put all the
compressor kept into an owned file, once, also after failed calls. A given file object may
take less than it is given and say so only in the result that `close` ignores, so it is left
out. What the file object's own close then loses is `torn`, as after a failed write:
`InOrder` still holds of the file.

Deadlock is checked in the runs of `HuffmanTree`, `Codec` and `Lifecycle`. It is off
for the buffers, the memory stream and the file, whose clients really stop: after a
torn write, an error or a release there is nothing left to do, and the bounds on
bytes and sessions end the rest.

Fairness. The only liveness claims are that a call returns. `HuffmanTree` assumes
weak fairness of the steps of the call in progress (`Build`), `Codec` of the steps of
`huf_encode`, `huf_decode` and the delivery between them, `Lifecycle` of the steps of
its one call (`Run`): a C function that was called keeps executing, and its streams
answer. No client is obliged to call anything, so `HuffmanFile` and the buffers
have no fairness, and no fairness prefers success over failure.

A remark on `huf_histogram_reset`: the construction clears the weights it merges,
and overwrites the one it leaves at the root before it could meet it again, so
the code would produce the same streams without this reset. No run tells the two apart;
`WeightConserved`, which is proved and in no run, does.

## Proofs

All theorems hold for every value of the constants under the named assumptions
of the modules.

* `HuffmanTreeProofs`. The inductive invariant `IInv` adds to the checked
  properties what the loops maintain: between two merges the slots still to be merged are
  exactly the live nodes without a parent and the used byte values that were not
  met yet; every slot from `node` on is untouched; in the scan, `index1` and `index2` are the
  two lightest of the slots before `j`; and the number of slots still to be
  merged falls by one with every merge, from the number of used byte values, so
  `node` cannot pass the last slot. That count is why
  the arrays suffice, and it is the part no property states by itself.
  From `IInv` follow `TypeCorrect`, `SlotBoundsHolds`, `PicksTwoLightestHolds`,
  `ForestHolds`, `TreeCoversBlockHolds` (but for the depth of the leaves, see `CostInv`
  below) and `FreeIsExactHolds`. The last two need
  that the nodes reachable from the root are exactly the live ones, which is
  proved by the order of slots: a parent is made after its children.
* `BufioWriterProofs`. `WInv` says that sink and buffer together are a run of the
  stream, also in the middle of a call and after a torn write, where the sink may be
  ahead of the accepted bytes. It gives `NothingLostHolds`, `FlushCompletesHolds`
  and the refinement `WriterImplementsPipe`.
* `BufioReaderProofs`. `RInv` ties position, buffer and deliveries together; each
  of the three ways of serving a read keeps it. A read whose source answers
  with nothing asked for nothing or met its end, which is why a read of one byte never
  runs into a short answer. The theorems assume
  `ReadFaults = FALSE`: with failing reads they are false, as `reader_fault` shows.
* `MemStreamProofs`. `MInv` says what the block holds up to `len` and what
  was read. `ShortWritesStayWithin` needs the assumption that no write is longer
  than a first capacity; `mem_long_writes` shows that it is needed.
* `LifecycleProofs`. `LInv` bounds, at every place of the call, the pointers that
  may be set (`Owned`): during the initialisation those allocated before, in a block
  those of the initialisation and what the block has added so far, on the way out
  those of the parts not released yet. Two facts carry the proof: no step
  allocates through a pointer that is still set (so nothing is `lost`), and a pointer is
  cleared, or never used again, together with its memory (`pointers` is a part of
  `heap`, so nothing is released twice). What no pointer owns is at most the one
  element of a failed code word (`Orphans`). From `LInv` follow `NoDoubleFreeHolds` and
  `OneLeftAtMostHolds`, for every set of byte values and any number of blocks.

* `HuffmanTreeProofs` also proves `WeightIsConserved`: the weights in the histogram
  add up to the bytes of the block all through the construction. The sum is a
  function over the slots; a merge takes two of its terms out and puts
  their sum at a slot that was 0.
  `TreeIsBuilt` is `BuildsTree`: two more invariants say that the scan prefers the later
  of equal slots (`TieInv`) and that after each merge tree and weights are those of
  as many turns of the declarative `Merged` of `HuffmanCode` (`SameInv`). It needs that
  both modules mean the same number of byte values (`ByteAssumption`).
* `HuffmanTreeProofs` proves `OptimalPlusOneBitHolds` from one more invariant, `CostInv`.
  While the tree grows, the merges so far have a weight m in all, and
  two things hold of the slots still to be merged. `Saves`: for any code of the
  byte values there is one of these slots that is cheaper by m at least.
  `Attains`: any code of these slots with words of less bits than there are slots
  gives, along the parent pointers, one of the byte values that is dearer by m exactly.
  A merge keeps the first by an exchange argument: of the words of any code the longest
  may be cut to the length of the second longest, for the share of the code space that is
  left over is a multiple of theirs (`Shortened`); the two may be given to the
  two lightest slots (`ExchangeIsCheaper`); and as siblings they are worth one word that is a
  bit shorter (`Siblings`, `MergeSaves`). It keeps the second because the words of the two
  slots are that of the new node and one bit. With one slot left m is the cost of a
  cheapest code and of the forest (`LastMerge`), and the root put on top adds one bit to
  every word. `Saves` is proved for words of any length, which gives
  `NoCodeIsShorterHolds`: a better code is not to be found beyond the bound that
  `OptimalPlusOneBit` puts on its reference so that TLC can enumerate it. The lengths of the
  forest are below the number of used byte values, so the depth of a leaf is
  at most that number (`TreeCoversBlock`), and the 1024 characters
  `huf_node_to_string` has for a word of at most 256 are enough.
  TLC checked `CostInv` on four byte values, with m from a finite range, before it was proved.
* `CodecProofs`, for any data, block size, tree and damage. The lemmas
  say what the recursive operators of `HuffmanCode` compute: digits, code words,
  serialization and its inverse are each given by their equation, with their types. The
  invariant of the encoder is about the tree while it is built (`Forest`): the nodes
  still without a parent are those with a weight, every merge makes them one fewer,
  so with at most as many leaves as byte values the slots suffice
  and the tree ends with one root; and a leaf has a parent, so its code word is not
  empty. It also says that a block starts with clean weights and a clean mapping,
  without which a byte would be coded with the word of an earlier block.
  The invariant of the decoder makes no assumption on the stream: it ties the position in
  the tree to nodes the tree has, and `restored` to the block. From the two follow
  `TypeCorrect`, `BytesAreCoded` and `BlockIsNotOverrun`.
  `DataInv` says, for each place of `huf_encode`, that what is written, followed by the
  pieces of the block still to be written and the encoding of the rest of the data,
  is the reference encoding; inside the bits of a block the pieces are the bits in
  the bit writer, the rest of the code word, which is walked backwards, and the words of
  the bytes after it, packed. While the tree is built it is the one of that many turns of
  `Merged`, and the turns end within `HUF_ASCII_COUNT`. Every
  step moves a piece over to what is written; a call of the writer or of the reader that
  fails leaves a prefix. A call that is told of more data than there is fails at the
  read that meets the end, so success means that all of the data was there. `ReferenceIsWritten` is `EncodesBlocks`, for any data, block size and widths.

  `ReadInv` is the same for `huf_decode`, on a stream that is the reference encoding or a
  prefix of one: what is decoded is the data up to where the decoder is, and what was read,
  followed by the pieces it still has to read, is the reference encoding. Four
  groups of lemmas carry it. Numbers: what `Digits` writes in enough bytes, `Unsigned` and
  `Signed` read back. Trees: `Deserialize` puts each subtree where `Serialize` wrote
  it (`Stands`), so every node read back has the children it had. Code words: the way
  from a leaf up to the root (`Chain`) is, read backwards, the way the decoder goes down,
  and it meets no leaf before its end. Streams: the bytes of the next piece are the next
  bytes to read, unless the stream ends first.
  Inside a block the decoder has a byte of which `offset` bits are left: they begin with
  the next bits of the block, and if there are more of them than that the block is at its end
  (`Split`), so filling is never decoded. The invariant says how a call can end as
  well: for too little data (`source`) only on a stream that was cut short, for an overflow only when a
  block holds all the byte values. From it follow `OnlyDataIsDecoded` (`DecodesPrefix`),
  `OnlyDamageCorrupts` (`CorruptOnlyIfDamaged`), `DataIsRestored` (`RoundTrip`) and `CutIsFound` (`CutIsNoticed`).
* `HuffmanFileProofs`. `FileInv` adds three things to the checked properties.
  `Compressor`: unless a call failed, less than a block is kept, nothing of it was
  read, and its length is a multiple of every length that divides the block and is the
  only one written. After a failed `huf_encode` the input stream may be
  read in part; it then holds at least a block, announces more than it has left to
  read, and so can never serve a later call in full, which is why nothing the output
  stream holds gets into the file any more. `Order`: some position separates
  the data that is in the file from what the compressor can still write.
  `Reading`: what the decompressor took is the file up to `fpos`, and before it took anything
  nothing was delivered. From `FileInv` follow `TypeCorrect`, `FileInOrder`,
  `BlocksWellFormed`, `NothingIsLost`, `ReadsAPrefix` and `CloseReportsHolds`. The last needs
  that a failed `huf_encode` is never followed by a flush that succeeds, which `Compressor`
  says, and that a flush then encodes exactly what is kept (`FlushedIs`).

The proofs by induction over data use no induction theorem with an operator as
a parameter. `ByteStreamProofs` derives what they need from the least number of a
set of numbers: `BoundedInduction` and `RankedInduction` say that a set that
inherits membership from smaller elements holds everything, and `Recursion` and
`RankedRecursion` that a recursive function on such a domain exists and is what its equation
says.

Assumptions. Beside those of the buffers named above: the widths are positive
(`WidthAssumption`), announced lengths and block sizes are natural numbers
and data is made of bytes (`InputsAssumption`), lost stretches have a natural length
(`HolesAssumption`), and the sizes of `HuffmanFile` are natural, a block not
empty (`SizesAssumption`). The decoder's theorems need that the widths hold the stream's
numbers (`RangeAssumption`): node indices and tree lengths are at most 1025 and written as
`int16_t`, block lengths as `uint64_t`; TLC evaluates it for the smaller widths of its runs.
The code gives all of them by its types.

Only model-checked: liveness (`CallReturns`, `BothReturn`, `ReadyReturns`), which is out
of the prover's reach. Every invariant and every action property of the passing runs is
proved.

## Other divergences met

Disagreements of the code with its own text, or steps that cannot be meant,
that no run is spent on:

* `huf_encode` and `huf_decode` crash when their initialisation fails before its last
  allocations: the free functions follow the NULL pointers of the parts not made
  yet (`encoder.c:221`, `decoder.c:171`). In `Lifecycle` this is `FollowNull`; it is why
  `ReadyReturns` starts at `ready`.
* A tree length of zero passes the check in `decoder.c:237`, though `errors.h:23` counts
  it as an overflow. In `Codec` this is `FollowNull` of `Decoder`, in `Lifecycle`
  `DecodeEmptyTree`; a damaged stream can lead there.
* A buffer size of zero means no buffer, not 64 KiB as `config.h:25` has it.
* The processed counter of a writer counts evicted bytes twice (`bufio.c:134`); nothing
  reads it.
* `HuffmanFile.read(size)` hands out whole decoded blocks, more than `size` bytes.
* `HuffmanCompressor.compress` after `flush` calls the bytes object it should return
  (`encoding()`), which raises a `TypeError`.
* `open` refuses `encoding`, `errors` and `newline` in text mode as well.

## Not modelled

* `huf_fdopen`, which keeps the address of its own parameter: what a stream made by
  it does is undefined from the first call on, a model would say no more than the
  line. `huf_fdclose` is one `free`. Reads and writes of a descriptor are modelled as
  the source and the sink of the buffers.
* What `huf_memopen` leaves allocated when a later one of its three allocations fails,
  and the block of a memory stream that Python's `MemStream.close` does not release.
* The texts of the errors (`errors.c`).
* Of the Python package: `open()` and its text mode (`io.TextIOWrapper` decides what
  is called when), the functions `compress` and `decompress` (one object used once,
  a behaviour of `HuffmanFile`'s), constructors that fail.
* Build, packaging and tests.
* Out of scope by nature: the performance of anything, and what undefined
  behaviour does after it happened.

## Plan

Done: the tree with its proofs, its optimality among them; the buffers and the memory stream
with their proofs; the codec
with the proofs of its types, of its block bounds, of what the encoder writes and that the
decoder gives it back; the memory of a call with its proof;
the Python objects and the file with their proofs.

What is left, the most important first:

1. `HuffmanFile` with a compressor over an abstract specification of its own (a queue of bytes
   from `write` to `read`), stated as a refinement where writes are regular.
2. `Codec` with a decoder whose buffer's read-ahead meets the next stream of the
   same source.
