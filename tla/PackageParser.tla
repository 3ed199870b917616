--------------------------- MODULE PackageParser ---------------------------
(***************************************************************************)
(* The package parser (pkg/parser): the backends, the reader that joins    *)
(* the files of a directory into one stream of YAML documents, the parser  *)
(* that decodes the documents, and the linter.  The parser reads through   *)
(* bufio.Reader and the YAMLReader of k8s.io/apimachinery, which are       *)
(* modelled from how they are used.                                        *)
(*                                                                         *)
(* A byte is "n" for a newline, ".", "-", "#", or a letter.  A line of m   *)
(* is of an object the metadata scheme knows, one of o of an object the    *)
(* object scheme knows; nothing else can be decoded.                       *)
(***************************************************************************)
EXTENDS Integers, Sequences, FiniteSets, SequencesExt

CONSTANTS
  Packages,   \* the sequences of files there may be: see File
  Texts,      \* the texts an EchoBackend may have
  Filters,    \* the sequences of filters an FsBackend may have
  BufferSize, \* of bufio.Reader: 4096
  Passes(_)   \* whether the linter functions accept an object

VARIABLES
  backend,  \* "fs", "echo" or "nop"
  files,    \* the files of the directory, or the text as one
  paths,    \* the files that NewFsReadCloser found and did not skip
  reader,   \* the FsReadCloser
  buffer,   \* what bufio.Reader holds
  line,     \* the line, if it did not fit into the buffer
  document, \* the lines of the document
  pkg,      \* the objects parsed
  result    \* of Init, of Parse, and of Lint

vars == <<backend, files, paths, reader, buffer, line, document, pkg, result>>

-----------------------------------------------------------------------------
(* The reader of a directory.                                              *)

\* A file has bytes, or cannot be read, or not even be walked to; it may be a directory, it
\* may not be YAML, and its path may match the pattern of SkipPath.
SkipDirs(f) == f.dir

SkipEmpty(f) == f.bytes = <<>>

SkipNotYAML(f) == ~f.yaml

SkipPath(f) == f.matches

FilterFn(fn, f) == CASE fn = "SkipDirs" -> SkipDirs(f)
                     [] fn = "SkipEmpty" -> SkipEmpty(f)
                     [] fn = "SkipNotYAML" -> SkipNotYAML(f)
                     [] fn = "SkipPath" -> SkipPath(f)

\* What becomes of a file: the first filter that skips it, or fails, decides.  A pattern that is
\* malformed is an error.
Walk(f, fns) ==
  LET deciding == SelectSeq(fns, LAMBDA fn : fn = "SkipBadPath" \/ FilterFn(fn, f))
  IN  IF ~f.walkable THEN "error"
      ELSE IF deciding = <<>> THEN "add"
      ELSE IF Head(deciding) = "SkipBadPath" THEN "error" ELSE "skip"

\* Mutant: the walk goes on after an error.
NewFsReadCloserGoesOn(fs, fns) == [paths |-> SelectSeq(fs, LAMBDA f : Walk(f, fns) = "add"), err |-> FALSE]

\* The files up to the first error, and whether there was one.
NewFsReadCloser(fs, fns) ==
  LET failed == SelectInSeq(fs, LAMBDA f : Walk(f, fns) = "error")
  IN  [paths |-> SelectSeq(IF failed = 0 THEN fs ELSE SubSeq(fs, 1, failed - 1), LAMBDA f : Walk(f, fns) = "add"),
       err |-> failed # 0]

ReadCloser == [index |-> 1, position |-> 0, writeBreak |-> FALSE, wroteBreak |-> FALSE]

EndBytes == <<"n", ".", ".", ".", "n">>

SeparatorBytes == <<"n", "-", "-", "-", "n">>

copy(bytes, room) == SubSeq(bytes, 1, IF Len(bytes) < room THEN Len(bytes) ELSE room)

\* A read: the reader after it and the bytes it returned.
Reads(r, bytes) == [reader |-> r, bytes |-> bytes, eof |-> FALSE]

\* Mutant: the reader goes on to the next file without a separator.
FsReadNoBreak(room) ==
  LET r == reader
  IN  IF r.index > Len(paths) THEN [Reads(r, <<>>) EXCEPT !.eof = TRUE]
      ELSE IF r.writeBreak THEN Reads([r EXCEPT !.index = @ + 1, !.position = 0, !.writeBreak = FALSE], <<"n">>)
      ELSE LET n == copy(SubSeq(paths[r.index].bytes, r.position + 1, Len(paths[r.index].bytes)), room)
           IN  Reads([r EXCEPT !.position = @ + Len(n), !.writeBreak = n = <<>>], n)

\* Mutant: the end of a file is not noticed.
FsReadNoEnd(room) ==
  LET f == paths[reader.index]
      n == copy(SubSeq(f.bytes, reader.position + 1, Len(f.bytes)), room)
  IN  IF reader.index > Len(paths) THEN [Reads(reader, <<>>) EXCEPT !.eof = TRUE]
      ELSE Reads([reader EXCEPT !.position = @ + Len(n)], n)

\* The end of a file and the separator are reads of their own, cut off if there is no room.  A
\* file that cannot be read has no bytes, and the error goes with them.
FsRead(room) ==
  LET r == reader
  IN  IF r.wroteBreak
      THEN Reads([r EXCEPT !.index = @ + 1, !.position = 0, !.wroteBreak = FALSE], copy(SeparatorBytes, room))
      ELSE IF r.index > Len(paths) THEN [Reads(r, <<>>) EXCEPT !.eof = TRUE]
      ELSE IF r.writeBreak
      THEN Reads([r EXCEPT !.writeBreak = FALSE, !.wroteBreak = TRUE], copy(EndBytes, room))
      ELSE LET f == paths[r.index]
               n == copy(IF f.readable THEN SubSeq(f.bytes, r.position + 1, Len(f.bytes)) ELSE <<>>, room)
           IN  Reads([r EXCEPT !.position = @ + Len(n), !.writeBreak = n = <<>>], n)

\* The reader of an EchoBackend's text.
EchoRead(room) ==
  LET r == reader
      n == copy(SubSeq(files[1].bytes, r.position + 1, Len(files[1].bytes)), room)
  IN  [reader |-> [r EXCEPT !.position = @ + Len(n)], bytes |-> n, eof |-> n = <<>>]

\* Mutant: the index is used as it is.
AnnotateIndex == reader.index

\* The file an error is said to be in: that of the reader, which may be one ahead.
Annotate == IF reader.index > Len(paths) THEN reader.index - 1 ELSE reader.index

-----------------------------------------------------------------------------
(* The parser.                                                             *)

isEmptyYAML(d) == \A i \in DOMAIN d : d[i] \in {<<>>, <<"-", "-", "-">>, <<".", ".", ".">>} \/ d[i][1] = "#"

\* The lines of a document that say something.
Content(d) == SelectSeq(d, LAMBDA l : ~isEmptyYAML(<<l>>))

\* What a scheme decodes: an object of its own.
Decodes(letter, d) == \A i \in DOMAIN Content(d) : Range(Content(d)[i]) = {letter}

\* The objects of the package, in the two lists, after a document.
Decode(p, d) == IF Decodes("m", d) THEN [p EXCEPT !.meta = Append(@, Content(d))]
                                   ELSE [p EXCEPT !.objects = Append(@, Content(d))]

Registered(d) == Decodes("m", d) \/ Decodes("o", d)

Emit(d) == /\ document' = <<>>
           /\ IF isEmptyYAML(d) THEN UNCHANGED <<pkg, result>>
              ELSE IF Registered(d) THEN pkg' = Decode(pkg, d) /\ UNCHANGED result
              ELSE result' = [step |-> "error", path |-> Annotate] /\ UNCHANGED pkg

Separates(l) == Len(l) >= 3 /\ SubSeq(l, 1, 3) = <<"-", "-", "-">> /\ (Len(l) = 3 \/ l[4] = "#")

\* YAMLReader gets a line: a separator ends the document, unless that is empty.
AddLine(l) == IF Separates(l) /\ document # <<>> THEN Emit(document)
              ELSE document' = Append(document, l) /\ UNCHANGED <<pkg, result>>

HasLine == \E i \in DOMAIN buffer : buffer[i] = "n"

Parsing == result.step = "parsing"

\* What the next read of bufio.Reader returns.
Next1 == LET room == BufferSize - Len(buffer) IN IF backend = "fs" THEN FsRead(room) ELSE EchoRead(room)

\* bufio.Reader reads more while it has no line.  After 100 reads of nothing in a row it would
\* give up, but the readers return nothing once a file: ParseEnds shows one that goes on with it.
Fill == /\ Parsing /\ ~HasLine /\ Len(buffer) < BufferSize /\ ~Next1.eof
        /\ reader' = Next1.reader /\ buffer' = buffer \o Next1.bytes
        /\ UNCHANGED <<backend, files, paths, line, document, pkg, result>>

\* A line that fills the buffer is taken in parts.
Spill == /\ Parsing /\ ~HasLine /\ Len(buffer) = BufferSize
         /\ line' = line \o buffer /\ buffer' = <<>>
         /\ UNCHANGED <<backend, files, paths, reader, document, pkg, result>>

TakeLine == /\ Parsing /\ HasLine
            /\ LET end == SelectInSeq(buffer, LAMBDA b : b = "n")
               IN  /\ AddLine(line \o SubSeq(buffer, 1, end - 1))
                   /\ buffer' = SubSeq(buffer, end + 1, Len(buffer))
            /\ line' = <<>>
            /\ UNCHANGED <<backend, files, paths, reader>>

\* The last line need not end in a newline.  At the end the last document is decoded, and the
\* parser returns when there is none.
AtEOF == /\ Parsing /\ ~HasLine /\ Len(buffer) < BufferSize /\ Next1.eof
         /\ IF buffer # <<>> THEN AddLine(line \o buffer)
            ELSE IF document # <<>> THEN Emit(document)
            ELSE result' = [result EXCEPT !.step = "parsed"] /\ UNCHANGED <<document, pkg>>
         /\ line' = <<>> /\ buffer' = <<>>
         /\ UNCHANGED <<backend, files, paths, reader>>

\* Init of the backend.  Its caller does not parse after an error.
InitBackend(fns) ==
  /\ result.step = "new"
  /\ LET r == IF backend = "fs" THEN NewFsReadCloser(files, fns) ELSE [paths |-> files, err |-> FALSE]
     IN  paths' = r.paths /\ result' = [result EXCEPT !.step = IF r.err THEN "failed" ELSE "none"]
  /\ UNCHANGED <<backend, files, reader, buffer, line, document, pkg>>

\* Without a reader there is nothing to parse.
ParseNothing == /\ result.step = "none" /\ backend = "nop"
                /\ result' = [result EXCEPT !.step = "parsed"]
                /\ UNCHANGED <<backend, files, paths, reader, buffer, line, document, pkg>>

Parse == /\ result.step = "none" /\ backend # "nop"
         /\ result' = [result EXCEPT !.step = "parsing"]
         /\ UNCHANGED <<backend, files, paths, reader, buffer, line, document, pkg>>

\* Mutant: only the metadata is linted.
LintMeta(p) == \A i \in DOMAIN p.meta : Passes(p.meta[i])

\* The linter goes through both lists, to the first error.
LintOK(p) == (\A i \in DOMAIN p.meta : Passes(p.meta[i])) /\ (\A i \in DOMAIN p.objects : Passes(p.objects[i]))

Lint == /\ result.step = "parsed"
        /\ result' = [result EXCEPT !.step = IF LintOK(pkg) THEN "accepted" ELSE "refused"]
        /\ UNCHANGED <<backend, files, paths, reader, buffer, line, document, pkg>>

Init ==
  /\ backend \in {"fs", "echo", "nop"}
  /\ files \in IF backend = "fs" THEN Packages ELSE IF backend = "echo" THEN Texts ELSE {<<>>}
  /\ paths = <<>>
  /\ reader = ReadCloser
  /\ buffer = <<>> /\ line = <<>> /\ document = <<>>
  /\ pkg = [meta |-> <<>>, objects |-> <<>>]
  /\ result = [step |-> "new", path |-> 0]

Next == (\E fns \in Filters : InitBackend(fns)) \/ Parse \/ ParseNothing \/ Fill \/ Spill \/ TakeLine \/ AtEOF \/ Lint

\* The parser and the linter are called one after the other, and nothing they call blocks.
Spec == Init /\ [][Next]_vars /\ WF_vars(Next)

-----------------------------------------------------------------------------
(* Properties.                                                             *)

\* The lines of a file by itself, and its documents.
Lines(bytes) == LET ends == {i \in DOMAIN bytes : bytes[i] = "n"} \cup {0, Len(bytes) + 1}
                    seq  == SetToSortSeq(ends, <)
                IN  [k \in 1 .. Len(seq) - 1 |-> SubSeq(bytes, seq[k] + 1, seq[k + 1] - 1)]

Documents(bytes) == LET ls   == Lines(bytes)
                        ends == {i \in DOMAIN ls : Separates(ls[i])} \cup {0, Len(ls) + 1}
                        seq  == SetToSortSeq(ends, <)
                    IN  SelectSeq([k \in 1 .. Len(seq) - 1 |-> SubSeq(ls, seq[k] + 1, seq[k + 1] - 1)],
                                  LAMBDA d : ~isEmptyYAML(d))

Whole == FlattenSeq([i \in DOMAIN paths |-> IF paths[i].readable THEN Documents(paths[i].bytes) ELSE <<>>])

Of(letter, ds) == SelectSeq([i \in DOMAIN ds |-> Content(ds[i])], LAMBDA d : Decodes(letter, d))

\* However the files fall into reads and buffers, no document spans two files and none is lost or
\* split: what is parsed is what each file that can be read holds by itself, in order, and there
\* is no file that the walk did not get to.
PackageIsFiles ==
  result.step \in {"parsed", "accepted", "refused"} =>
    /\ pkg = [meta |-> Of("m", Whole), objects |-> Of("o", Whole)]
    /\ \A i \in DOMAIN Whole : Registered(Whole[i])
    /\ \A f \in Range(files) : f.walkable

\* Whether a document of a file cannot be decoded, or its end is cut in the middle of "...": its
\* last line leaves the buffer room for the newline and one or two of the periods.
Faulty(f) ==
  LET ds == Documents(f.bytes)
      ls == Lines(f.bytes)
  IN  \/ \E k \in DOMAIN ds : ~Registered(ds[k])
      \/ Len(ls[Len(ls)]) % BufferSize \in {BufferSize - 3, BufferSize - 2}

\* The parser refuses a package only for a document that a file holds, or for the end of a file
\* that the reader cut, and says it is in that file or in the one that follows it.
ErrorsAreNearby ==
  result.step = "error" => /\ result.path \in DOMAIN paths
                           /\ \E i \in {result.path - 1, result.path} \cap DOMAIN paths : Faulty(paths[i])

\* The parser refuses no package whose documents it can decode.
GoodFilesAreParsed == result.step = "error" => \E i \in DOMAIN Whole : ~Registered(Whole[i])

\* A package that was accepted has only objects the linters pass.
AcceptedPasses == result.step = "accepted" => \A o \in Range(pkg.meta) \cup Range(pkg.objects) : Passes(o)

\* Parsing ends, whatever the files are.
ParseEnds == <>(result.step \in {"accepted", "refused", "error", "failed"})

\* A package is parsed without errors only if all of its files could be read.
ReadErrorsSurface == result.step = "parsed" => \A i \in DOMAIN paths : paths[i].readable
=============================================================================
