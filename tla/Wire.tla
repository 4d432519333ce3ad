-------------------------------- MODULE Wire --------------------------------
(***************************************************************************)
(* The framing of a connection (internal/wire) and the reading of a pack   *)
(* as it arrives (internal/packread).                                      *)
(*                                                                         *)
(* A connection carries pkt-lines, each a sequence of bytes; go-git writes *)
(* an empty one as a flush-pkt and reads a flush-pkt as an empty one.  A   *)
(* byte says what it is of: a text line, or a pack, of which an object     *)
(* takes a byte or two.                                                    *)
(***************************************************************************)
EXTENDS Trees

CONSTANT ChunkSize  \* how much of a pack goes into one line

ASSUME WireAssumption == ChunkSize \in Nat \ {0}

Smaller(a, b) == IF a < b THEN a ELSE b

Kinds == {"update", "error", "pack", "part", "object", "sum"}

Bytes == [kind : Kinds, of : Objects \cup {Nothing}, count : Nat]

\* A line of text, with the number of objects it announces.
Text(kind, count) == <<[kind |-> kind, of |-> Nothing, count |-> count]>>

\* What the encoder writes of a pack: its head, its objects, its checksum.  With
\* no objects to send there is no pack.
Byte(kind, o) == [kind |-> kind, of |-> o, count |-> 0]

ObjectBytes(o) ==
  IF IsTree(o) THEN <<Byte("part", o), Byte("object", o)>> ELSE <<Byte("object", o)>>

Pieces(objects) ==
  IF objects = <<>> THEN <<>>
  ELSE <<<<Byte("pack", Nothing)>>>> \o [i \in DOMAIN objects |-> ObjectBytes(objects[i])]
         \o <<<<Byte("sum", Nothing)>>>>

-----------------------------------------------------------------------------
(* PackWriter: the lines it has written, and what is buffered.             *)

Writer == [lines |-> <<>>, buf |-> <<>>]

Writers == [lines : Seq(Seq(Bytes)), buf : Seq(Bytes)]

\* Faulty Flush: an empty buffer is written as well.
FlushAlways(w) == [lines |-> Append(w.lines, w.buf), buf |-> <<>>]

Flush(w) == IF w.buf = <<>> THEN w ELSE [lines |-> Append(w.lines, w.buf), buf |-> <<>>]

\* One round of Write's loop: as much of what is left as the buffer takes.
Fill(w, rest) ==
  LET n      == Smaller(ChunkSize - Len(w.buf), Len(rest))
      filled == [w EXCEPT !.buf = @ \o SubSeq(rest, 1, n)]
  IN [to   |-> IF Len(filled.buf) < ChunkSize THEN filled ELSE Flush(filled),
      rest |-> SubSeq(rest, n + 1, Len(rest))]

\* Each round takes a byte at least.
Write(w, p) ==
  LET Round[r \in [to : Writers, rest : Seq(Bytes)] \X (1 .. Len(p))] ==
        IF r[1].rest = <<>> THEN r[1] ELSE Fill(r[1].to, r[1].rest)
  IN Loop(Len(p), [to |-> w, rest |-> p], Round).to

\* What the encoder writes, one piece after the other.
Written(pieces) ==
  LET Round[r \in Writers \X DOMAIN pieces] == Write(r[1], pieces[r[2]])
  IN Loop(Len(pieces), Writer, Round)

\* Close: what is left, and the flush-pkt.
Close(w) == Append(Flush(w).lines, <<>>)

\* The lines of an update with a pack that was written in these pieces.
Sent(count, pieces) == <<Text("update", count)>> \o Close(Written(pieces))

\* The same of an update whose pack failed to be encoded: what was buffered is
\* lost, and what the server says next is why.
BrokenOff(count, pieces) ==
  <<Text("update", count)>> \o Written(pieces).lines \o <<Text("error", 0)>>

-----------------------------------------------------------------------------
(* packReader: the lines that are still to come, and what is left of one.  *)

Reader(lines) == [lines |-> lines, buf |-> <<>>, done |-> FALSE]

Readers == [lines : Seq(Seq(Bytes)), buf : Seq(Bytes), done : BOOLEAN]

\* What a read ends with is Go's: nil, io.EOF or io.ErrUnexpectedEOF.
Outcome(r, bytes, end) == [reader |-> r, bytes |-> bytes, end |-> end]

\* What there is to copy: what is left of a line, or the next one.  A line that is
\* no flush-pkt holds something.
Taken(r) ==
  IF r.buf = <<>> /\ ~r.done /\ r.lines # <<>>
  THEN [lines |-> Tail(r.lines), buf |-> Head(r.lines), done |-> Head(r.lines) = <<>>]
  ELSE r

Copied(r, size) ==
  LET n == Smaller(size, Len(r.buf)) IN
  Outcome([r EXCEPT !.buf = SubSeq(@, n + 1, Len(@))], SubSeq(r.buf, 1, n), "nil")

\* Faulty Read: a connection that is at its end ends the pack.
ReadToEnd(r, size) ==
  IF Taken(r).buf # <<>> THEN Copied(Taken(r), size) ELSE Outcome(Taken(r), <<>>, "EOF")

\* Read of at most so many bytes: some, or the end of the pack, or an error.
Read(r, size) ==
  IF Taken(r).buf # <<>> THEN Copied(Taken(r), size)
  ELSE Outcome(Taken(r), <<>>, IF Taken(r).done THEN "EOF" ELSE "ErrUnexpectedEOF")

Outcomes == [reader : Readers, bytes : Seq(Bytes), end : {"nil", "EOF", "ErrUnexpectedEOF"}]

\* Everything up to the end or the error: what Scan leaves is drained.  Each round
\* reads a byte at least, or is the last.
ReadAll(lines, size) ==
  LET rounds == Len(FlattenSeq(lines)) + 1
      Round[r \in Outcomes \X (1 .. rounds)] ==
        IF r[1].end # "nil" THEN r[1]
        ELSE LET o == Read(r[1].reader, size) IN
             Outcome(o.reader, r[1].bytes \o o.bytes, o.end)
  IN Loop(rounds, Outcome(Reader(lines), <<>>, "nil"), Round)

-----------------------------------------------------------------------------
(* Scan: every object is handed over as soon as all of it has been read.   *)

IsPack(bytes) == bytes # <<>> /\ Head(bytes).kind = "pack"

\* The objects in front of what is no part of a pack.
Scanned(bytes) ==
  LET good == {i \in DOMAIN bytes :
                 \A j \in 1 .. i : bytes[j].kind \in {"pack", "part", "object", "sum"}}
  IN IF IsPack(bytes) THEN {bytes[i].of : i \in {j \in good : bytes[j].kind = "object"}} ELSE {}

\* Scan comes to its end: the objects the pack declares, and its checksum.
Complete(bytes) == IsPack(bytes) /\ \E i \in DOMAIN bytes : bytes[i].kind = "sum"

\* What consume makes of an update that arrives on these lines: the objects that
\* got into the graph, whether it acknowledges, and the lines that are left.
Consumed(lines, size) ==
  LET count == Head(lines)[1].count
      all   == ReadAll(Tail(lines), size)
  IN [objects |-> IF count > 0 THEN Scanned(all.bytes) ELSE {},
      acked   |-> all.end = "EOF" /\ (count > 0 => Complete(all.bytes)),
      rest    |-> all.reader.lines]
=============================================================================
