---------------------------- MODULE HuffmanFile ----------------------------
(***************************************************************************)
(* HuffmanFile (huffmanfile/huffmanfile.py) over one file, by a client     *)
(* that opens it to write, to append or to read, again and again.  The     *)
(* file object below is one the HuffmanFile opened itself or one it was    *)
(* given.  Its write may fail with a part taken; a given, unbuffered one   *)
(* may also return the shorter count, which HuffmanFile.write ignores; and *)
(* one that was opened by name may fail to put out what it buffers when it *)
(* is closed.                                                              *)
(*                                                                         *)
(* Calls that change nothing are left out: an open that fails, any call on *)
(* a closed file, a read of the file object that raises.                   *)
(***************************************************************************)
EXTENDS HuffmanCompressor, HuffmanDecompressor

CONSTANTS
    BufferSize,    \* io.DEFAULT_BUFFER_SIZE
    WriteSizes,    \* bound: the lengths of the writes
    ReadSizes,     \* bound: the sizes asked for, beside none
    MaxGiven,      \* bound: the bytes written in all
    MaxSessions    \* bound: how often the file is opened to write

ASSUME SizesAssumption ==
    BufferSize \in Nat /\ WriteSizes \subseteq Nat /\ ReadSizes \subseteq Int

VARIABLES
    mode,         \* self._mode, or closing, while close() has the file to close
    fp,           \* self._fp: none, owned (self._closefp) or given
    file,         \* its content
    fpos,         \* how far it is read
    result,       \* what the last call did: ok, or the error it raised
    delivered,    \* history: what the reads of this session returned
    gap,          \* history: a read of this session dropped its chunk
    sessions,     \* history: how often it was opened to write
    base,         \* history: given, when the file was truncated
    start,        \* history: the length of the file when it was opened
    sizes,        \* history: the lengths of the writes of this session
    regular,      \* history: those of every session since base are regular
    failed,       \* history: the compressor failed since then
    torn          \* history: so did the file object, or it took less

fileVars == <<mode, fp, file, fpos, result, delivered, gap, sessions,
              base, start, sizes, regular, failed, torn>>
vars == <<compVars, decompVars, fileVars>>

(* Writes of at least a block, or all of one length that divides it.       *)
Regular(lengths) ==
    \/ \A n \in lengths : n >= BlockSize
    \/ \E n \in lengths : n > 0 /\ BlockSize % n = 0 /\ lengths \subseteq {0, n}
    \/ lengths \subseteq {0}

-----------------------------------------------------------------------------
(* Modes w, a and x, the last of which finds no file and is like w.  A     *)
(* given file object is used as it is.                                     *)
OpenToWrite(kind, truncates) ==
    /\ mode = "closed" /\ sessions < MaxSessions
    /\ truncates => kind = "owned"
    /\ NewCompressor
    /\ mode' = "write" /\ fp' = kind
    /\ sessions' = sessions + 1 /\ result' = "ok"
    /\ IF truncates
       THEN /\ file' = <<>> /\ start' = 0 /\ base' = given
            /\ regular' = TRUE /\ failed' = FALSE /\ torn' = FALSE
       ELSE start' = Len(file) /\ UNCHANGED <<file, base, regular, failed, torn>>
    /\ UNCHANGED <<decompVars, fpos, delivered, gap, sizes>>

(* Mode r.  A file with a cut block before its end is not read here: what  *)
(* huf_decode makes of a damaged stream is the subject of Codec.           *)
OpenToRead(kind) ==
    /\ mode = "closed" /\ Continuous(file)
    /\ NewDecompressor
    /\ mode' = "read" /\ fp' = kind /\ start' = Len(file)
    /\ result' = "ok"
    /\ UNCHANGED <<compVars, file, fpos, delivered, gap, sessions, base, sizes,
                   regular, failed, torn>>

-----------------------------------------------------------------------------
(* self._fp.write(units).                                                  *)

FpWrites(units) ==
    /\ file' = file \o units
    /\ result' = "ok" /\ UNCHANGED torn

FpWritesLess(units) ==
    /\ \E n \in 0 .. Len(units) - 1 : file' = file \o SubSeq(units, 1, n)
    /\ result' \in {"write"} \cup (IF fp = "given" THEN {"ok"} ELSE {})
    /\ torn' = TRUE

FpWrite(units) ==
    /\ FpWrites(units) \/ FpWritesLess(units)
    /\ UNCHANGED failed

Raise(error) ==
    /\ result' = error
    /\ failed' = TRUE
    /\ UNCHANGED <<file, torn>>

Write(n) ==
    /\ mode = "write" /\ given + n <= MaxGiven
    /\ \/ CompressKeeps(n) /\ FpWrite(<<>>)
       \/ CompressBlocks(n) /\ FpWrite(Compressed(n))
       \/ CompressRaises(n) /\ Raise("encode")
    /\ sizes' = sizes \cup {n}
    /\ regular' = (regular /\ Regular(sizes'))
    /\ UNCHANGED <<decompVars, mode, fp, fpos, delivered, gap, sessions, base,
                   start>>

(* The size of a read that names none.                                     *)
Omitted == -1

(* fp.read(size), and the decompressor on what it returns.                 *)
Chunk(size) ==
    LET n == IF size < 0 THEN BufferSize ELSE size
    IN  SubSeq(file, fpos + 1, Min({fpos + n, Len(file)}))

(* The result of the decompressor is all or nothing.                       *)
Read(size) ==
    /\ mode = "read"
    /\ fpos' = fpos + Len(Chunk(size))
    /\ \/ /\ DecompressReturns(Chunk(size))
          /\ delivered' = delivered \o Decompressed(Chunk(size))
          /\ result' = "ok" /\ UNCHANGED gap
       \/ /\ DecompressShort(Chunk(size))
          /\ result' = "decode" /\ UNCHANGED <<delivered, gap>>
       \/ /\ DecompressRefuses(Chunk(size))
          /\ result' = "memory" /\ gap' = TRUE /\ UNCHANGED delivered
       \/ /\ DecompressFails(Chunk(size))
          /\ result' = "memory" /\ UNCHANGED <<delivered, gap>>
    /\ UNCHANGED <<compVars, mode, fp, file, sessions, base, start, sizes,
                   regular, failed, torn>>

-----------------------------------------------------------------------------
(* close(), first the body of its try; CloseFp follows whatever it did.    *)

CloseWriting ==
    /\ mode = "write"
    /\ \/ FlushReturns /\ FpWrite(Flushed)
       \/ FlushRaises /\ Raise("encode")
    /\ mode' = "closing" /\ sizes' = {}
    /\ UNCHANGED <<decompVars, fp, fpos, delivered, gap, sessions, base, start,
                   regular>>

CloseReading ==
    /\ mode = "read"
    /\ NewDecompressor
    /\ fpos' = 0 /\ delivered' = <<>> /\ gap' = FALSE /\ result' = "ok"
    /\ mode' = "closing"
    /\ UNCHANGED <<compVars, fp, file, sessions, base, start, sizes, regular,
                   failed, torn>>

(* The finally of close(): an error of the body is raised again.  A file   *)
(* opened by name is closed, which may raise an error of its own and lose  *)
(* an end of what was written in this session.                             *)
CloseFp ==
    /\ mode = "closing"
    /\ \/ UNCHANGED <<file, result, torn>>
       \/ /\ fp = "owned" /\ result' = "close"
          /\ \E n \in start .. Len(file) :
                /\ file' = SubSeq(file, 1, n)
                /\ torn' = (torn \/ n < Len(file))
    /\ mode' = "closed" /\ fp' = "none"
    /\ UNCHANGED <<compVars, decompVars, fpos, delivered, gap, sessions, base,
                   start, sizes, regular, failed>>

-----------------------------------------------------------------------------
Init ==
    /\ CompInit /\ DecompInit
    /\ mode = "closed" /\ fp = "none" /\ gap = FALSE
    /\ file = <<>> /\ fpos = 0 /\ result = "ok" /\ delivered = <<>>
    /\ sessions = 0 /\ base = 0 /\ start = 0 /\ sizes = {}
    /\ regular = TRUE /\ failed = FALSE /\ torn = FALSE

Next ==
    \/ \E kind \in {"owned", "given"} :
          OpenToRead(kind) \/ \E truncates \in BOOLEAN : OpenToWrite(kind, truncates)
    \/ \E n \in WriteSizes : Write(n)
    \/ \E size \in ReadSizes \cup {Omitted} : Read(size)
    \/ CloseWriting \/ CloseReading \/ CloseFp

Spec == Init /\ [][Next]_vars

-----------------------------------------------------------------------------
(* Type correctness of the file, the compressor and the decompressor.      *)
TypeOK ==
    /\ mode \in {"closed", "write", "read", "closing"}
    /\ fp \in {"none", "owned", "given"}
    /\ (mode = "closed") = (fp = "none")
    /\ coff \in 0 .. Len(cin) /\ doff \in 0 .. Len(din) /\ fpos \in 0 .. Len(file)
    /\ base \in 0 .. given /\ start \in 0 .. Len(file)
    /\ result \in {"ok", "write", "encode", "decode", "memory", "close"}

(* Whatever fails and whoever tries again, the file never holds a byte     *)
(* twice, nor one before an earlier one (huffmanfile.py:319-346, 357-362). *)
InOrder ==
    LET bytes == Payload(file) IN
    \A i \in 1 .. Len(bytes) - 1 : bytes[i] < bytes[i + 1]

(* As long as the file object takes what it is given, the file consists of *)
(* whole blocks, of full size but the last of a session, also after the    *)
(* compressor failed in the middle of a block: what that left in its       *)
(* streams never gets out (huffmanfile.py:335-341).                        *)
WellFormed ==
    ~torn =>
        /\ Whole(file)
        /\ \A i \in Headers(file) :
              i > start /\ (mode = "write" \/ BlockEnd(file, i) < Len(file))
              => BlockEnd(file, i) = i + BlockSize

(* With regular writes and no failure, the file and the compressor hold    *)
(* everything between them, in every session (huffmanfile.py:316-346).     *)
NothingLost ==
    ~torn /\ ~failed /\ regular
    => Payload(file) \o cin = Run(base, given - base)

(* What reading returns is what the file holds from its beginning,         *)
(* whatever the sizes asked for and whichever calls fail in between, as    *)
(* long as no chunk was taken from the file and then refused by the        *)
(* decompressor's input stream (huffmanfile.py:161-162, 391-400).          *)
ReadsPrefix ==
    mode = "read" /\ ~gap => IsPrefix(delivered, Payload(file))

(* When the body of close() raises nothing, on a file opened by name, all  *)
(* that the compressor still held is in the file, once and in order, also  *)
(* after calls that failed before: what cannot be saved is reported        *)
(* (huffmanfile.py:100-106, 355-362).                                      *)
CloseReports ==
    [][mode = "write" /\ mode' = "closing" /\ fp = "owned" /\ result' = "ok"
       => Payload(file') = Payload(file) \o cin]_vars

(* huffmanfile.py:275: "This object may be used to compress data           *)
(* incrementally."                                                         *)
Incremental ==
    mode = "closed" /\ ~torn /\ ~failed => Payload(file) = Run(base, given - base)

(* huffmanfile.py:156: "Returns b"" if the file is already at EOF."        *)
EmptyAtEnd ==
    [][\A size \in ReadSizes \cup {Omitted} :
          Read(size) /\ fpos = Len(file) /\ result = "ok" => result' # "decode"]_vars
=============================================================================
