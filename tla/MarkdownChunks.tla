-------------------------- MODULE MarkdownChunks --------------------------
(***************************************************************************)
(* The markdown chunker (graph/markdown_chunker.py): a document is split   *)
(* into blocks, and the blocks are packed into chunks of at most Size      *)
(* tokens, or taken apart when they are larger.                            *)
(*                                                                         *)
(* A line is its kind and the tokens of each of its sentences (of the      *)
(* whole line where it is not prose); a sentence does not run over a line. *)
(* Texts are sequences of tokens, each known by its line, its sentence and *)
(* its place in it.  The separators that joining adds cost none.           *)
(***************************************************************************)
EXTENDS Naturals, Sequences, FiniteSets, SequencesExt

CONSTANTS
    Lines,      \* the lines documents are made of
    MaxLines,   \* bound
    Size        \* tokens of a chunk

\* chunk() refuses a size of zero; a line without a token is a blank one.
ASSUME ChunksAssumption ==
    /\ MaxLines \in Nat /\ Size \in Nat \ {0}
    /\ \A l \in Lines : l.units \in Seq(Nat \ {0}) /\ (l.kind = "blank" <=> l.units = <<>>)

VARIABLES
    doc,        \* its lines
    left,       \* blocks chunk() has yet to take
    current,    \* the chunk being packed
    pending,    \* headings that wait for their body
    out         \* chunks

chunkVars == <<doc, left, current, pending, out>>

-----------------------------------------------------------------------------
(* Blocks.                                                                 *)

\* The sentences of line n, a row or an item being one.
Units(n) ==
    [u \in DOMAIN doc[n].units |-> [t \in 1..doc[n].units[u] |-> <<n, u, t>>]]
Text(lines) == FlattenSeq([i \in DOMAIN lines |-> FlattenSeq(Units(lines[i]))])

Kind(n) == doc[n].kind
All(lines, kinds) == \A i \in DOMAIN lines : Kind(lines[i]) \in kinds

Block(type, lines) == [type |-> type, lines |-> lines]

Classify(lines) ==
    IF Kind(lines[1]) = "heading" /\ Len(lines) = 1 THEN Block("heading", lines)
    ELSE IF All(lines, {"row", "rule"}) THEN Block("table", lines)
    ELSE IF All(lines, {"item"}) THEN Block("list", lines)
    ELSE Block("paragraph", lines)

Close(acc) ==
    IF acc.open = <<>> THEN acc.blocks
    ELSE Append(acc.blocks, IF acc.fenced THEN Block("code", acc.open) ELSE Classify(acc.open))

\* A fence opens a block only where no other is open; in a paragraph it is text.
Segment1(acc, n) ==
    IF acc.fenced
    THEN IF Kind(n) = "fence"
         THEN [blocks |-> Append(acc.blocks, Block("code", Append(acc.open, n))),
               open |-> <<>>, fenced |-> FALSE]
         ELSE [acc EXCEPT !.open = Append(@, n)]
    ELSE IF Kind(n) = "blank"
         THEN [blocks |-> Close(acc), open |-> <<>>, fenced |-> FALSE]
         ELSE [acc EXCEPT !.open = Append(@, n),
                          !.fenced = (acc.open = <<>> /\ Kind(n) = "fence")]

Segment ==
    LET after[n \in 0..Len(doc)] ==
            IF n = 0 THEN [blocks |-> <<>>, open |-> <<>>, fenced |-> FALSE]
            ELSE Segment1(after[n - 1], n)
    IN  Close(after[Len(doc)])

-----------------------------------------------------------------------------
(* Taking a large block apart.                                             *)

Plus(pieces, cur) == IF cur = <<>> THEN pieces ELSE Append(pieces, cur)

TokenSplit(u) ==
    [i \in 1..((Len(u) + Size - 1) \div Size) |->
        SubSeq(u, (i - 1) * Size + 1, IF i * Size < Len(u) THEN i * Size ELSE Len(u))]

\* Mutant: what was packed so far is dropped.
PackOneOver(acc, u) ==
    IF Len(u) > Size THEN [pieces |-> acc.pieces \o TokenSplit(u), cur |-> <<>>]
    ELSE IF Len(acc.cur \o u) > Size THEN [pieces |-> Plus(acc.pieces, acc.cur), cur |-> u]
    ELSE [acc EXCEPT !.cur = @ \o u]

PackOne(acc, u) ==
    IF Len(u) > Size THEN [pieces |-> Plus(acc.pieces, acc.cur) \o TokenSplit(u), cur |-> <<>>]
    ELSE IF Len(acc.cur \o u) > Size THEN [pieces |-> Plus(acc.pieces, acc.cur), cur |-> u]
    ELSE [acc EXCEPT !.cur = @ \o u]

PackUnits(units) ==
    LET after[n \in 0..Len(units)] ==
            IF n = 0 THEN [pieces |-> <<>>, cur |-> <<>>] ELSE PackOne(after[n - 1], units[n])
    IN  Plus(after[Len(units)].pieces, after[Len(units)].cur)

HeaderLines(lines) ==
    IF Len(lines) > 1 /\ Kind(lines[2]) = "rule" THEN SubSeq(lines, 1, 2) ELSE SubSeq(lines, 1, 1)

\* Every piece has the header; a row of Size tokens has a piece of its own.
Keep(header, acc) ==
    IF acc.cur = <<>> THEN acc.pieces ELSE Append(acc.pieces, header \o acc.cur)

PutRow(header, acc, row) ==
    IF Len(row) >= Size
    THEN [pieces |-> Append(Keep(header, acc), header \o row), cur |-> <<>>]
    ELSE IF acc.cur # <<>> /\ Len(header \o acc.cur \o row) > Size
    THEN [pieces |-> Keep(header, acc), cur |-> row]
    ELSE [acc EXCEPT !.cur = @ \o row]

SplitTable(lines) ==
    LET header == Text(HeaderLines(lines))
        body   == SubSeq(lines, Len(HeaderLines(lines)) + 1, Len(lines))
        after[n \in 0..Len(body)] ==
            IF n = 0 THEN [pieces |-> <<>>, cur |-> <<>>]
            ELSE PutRow(header, after[n - 1], Text(<<body[n]>>))
        pieces == Keep(header, after[Len(body)])
    IN  IF pieces = <<>> THEN <<header>> ELSE pieces

SplitOversized(b) ==
    IF b.type = "table" THEN SplitTable(b.lines)
    ELSE IF b.type = "code" THEN <<Text(b.lines)>>
    ELSE PackUnits(FlattenSeq([i \in DOMAIN b.lines |-> Units(b.lines[i])]))

-----------------------------------------------------------------------------
(* chunk(): one step for each turn of its loop.                            *)

ChunkInit ==
    /\ doc \in SeqOf(Lines, MaxLines)
    /\ left = Segment
    /\ current = <<>> /\ pending = <<>> /\ out = <<>>

TakeHeading ==
    /\ left # <<>> /\ Head(left).type = "heading"
    /\ pending' = pending \o Text(Head(left).lines)
    /\ left' = Tail(left)
    /\ UNCHANGED <<doc, current, out>>

TakeOversized ==
    LET pieces == SplitOversized(Head(left))
    IN  /\ left # <<>> /\ Head(left).type # "heading" /\ Len(Text(Head(left).lines)) > Size
        /\ out' = Plus(out, current) \o [pieces EXCEPT ![1] = pending \o @]
        /\ current' = <<>> /\ pending' = <<>> /\ left' = Tail(left)
        /\ UNCHANGED doc

TakeBlock ==
    LET body == pending \o Text(Head(left).lines)
        full == current # <<>> /\ Len(current \o body) > Size
    IN  /\ left # <<>> /\ Head(left).type # "heading" /\ Len(Text(Head(left).lines)) <= Size
        /\ out' = IF full THEN Append(out, current) ELSE out
        /\ current' = IF full THEN body ELSE current \o body
        /\ pending' = <<>> /\ left' = Tail(left)
        /\ UNCHANGED doc

Finish ==
    /\ left = <<>> /\ current \o pending # <<>>
    /\ out' = Plus(Plus(out, current), pending)
    /\ current' = <<>> /\ pending' = <<>>
    /\ UNCHANGED <<doc, left>>

ChunkNext == TakeHeading \/ TakeOversized \/ TakeBlock \/ Finish

ChunkSpec == ChunkInit /\ [][ChunkNext]_chunkVars

-----------------------------------------------------------------------------
(* Properties.                                                             *)

Chunked == left = <<>> /\ current = <<>> /\ pending = <<>>
Flat == FlattenSeq(out)
Words == Text([n \in DOMAIN doc |-> n])
First(t) == CHOOSE i \in DOMAIN Flat : Flat[i] = t /\ \A j \in 1..(i - 1) : Flat[j] # t

Sized(chunk) ==
    LET bare  == {i \in DOMAIN chunk : Kind(chunk[i][1]) # "heading"}
        lines == {chunk[i][1] : i \in bare}
    IN  Cardinality(bare) > Size =>
            \/ \E i \in bare : Kind(chunk[i][1]) = "fence" /\ \A j \in bare : i <= j
            \/ Cardinality(lines) <= 3 /\ \A n \in lines : Kind(n) \in {"row", "rule"}

\* No token is lost, whatever the mix of blocks and their sizes; tokens keep their order,
\* and only those of a table occur twice; and a chunk that has more than Size tokens,
\* those of its heading lines not counted, begins with a fence or is one row under
\* its table's header.  (Where a sentence is cut is not looked at.)
ChunksFaithful ==
    Chunked =>
        /\ ToSet(Flat) = ToSet(Words)
        /\ \A i \in 1..(Len(Words) - 1) : First(Words[i]) < First(Words[i + 1])
        /\ \A i, j \in DOMAIN Flat :
              i < j /\ Flat[i] = Flat[j] => Kind(Flat[i][1]) \in {"row", "rule"}
        /\ \A c \in DOMAIN out : Sized(out[c])

\* Fenced code is kept whole, "including any blank lines inside the fence" (segment).
FencesWhole ==
    \A n, m \in DOMAIN doc :
        /\ Chunked /\ Kind(n) = "fence" /\ Kind(m) = "fence" /\ n < m
        /\ \A k \in 1..(n - 1) : Kind(k) # "fence"
        /\ \A k \in (n + 1)..(m - 1) : Kind(k) # "fence"
        => \E c \in DOMAIN out : Text([k \in 1..(m - n + 1) |-> n + k - 1])
                                   \in {SubSeq(out[c], i, j) : i, j \in DOMAIN out[c]}
=============================================================================
