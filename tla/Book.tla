-------------------------------- MODULE Book --------------------------------
(***************************************************************************)
(* The opening book (src/book.cpp).  A file is a sequence of lines: a      *)
(* limit, the text of a position, an entry for the last position above it, *)
(* or a comment.  A book holds what the last file said, by position.       *)
(***************************************************************************)
EXTENDS Integers, FiniteSets, SequencesExt

CONSTANTS
    Keys,    \* what texts of positions tell besides the ply
    NoKey    \* what a text tells that is not of a position

(* A text also of no position if its ply is less than 1. *)
Text(key, ply) == [key |-> key, ply |-> ply]
BookKey(text) == IF text.ply < 1 THEN NoKey ELSE text.key

Limit(n)      == [kind |-> "limit", n |-> n]
Heading(text) == [kind |-> "sfen", text |-> text]
Entry(best, ponder) == [kind |-> "entry", best |-> best, ponder |-> ponder]
Comment       == [kind |-> "comment"]   \* also an entry that does not parse

IsLine(line) ==
    \/ line.kind = "limit" /\ line.n \in Int
    \/ line.kind = "sfen" /\ line.text \in [key : Keys \cup {NoKey}, ply : Int]
    \/ line.kind \in {"entry", "comment"}
IsFile(file) ==
    file.readable \in BOOLEAN /\ file.lines \in Seq({line \in Range(file.lines) : IsLine(line)})

Unreadable == [readable |-> FALSE, lines |-> <<>>]
File(lines) == [readable |-> TRUE, lines |-> lines]

EmptyBook == [entries |-> [key \in Keys |-> <<>>], loaded |-> FALSE, maxPly |-> 0]

(* Mutant: entries below a text that is of no position go to the one before. *)
ReadLineKeepsPosition(r, line) ==
    CASE line.kind = "limit" /\ line.n > 0 -> [r EXCEPT !.book.maxPly = line.n]
      [] line.kind = "sfen" /\ BookKey(line.text) # NoKey -> [r EXCEPT !.current = BookKey(line.text)]
      [] line.kind = "entry" /\ r.current # NoKey ->
             [r EXCEPT !.book.entries[r.current] = Append(@, line)]
      [] OTHER -> r

ReadLine(r, line) ==
    CASE line.kind = "limit" /\ line.n > 0 -> [r EXCEPT !.book.maxPly = line.n]
      [] line.kind = "sfen" -> [r EXCEPT !.current = BookKey(line.text)]
      [] line.kind = "entry" /\ r.current # NoKey ->
             [r EXCEPT !.book.entries[r.current] = Append(@, line)]
      [] OTHER -> r

Cleared(book) == [book EXCEPT !.entries = EmptyBook.entries, !.loaded = FALSE, !.maxPly = 0]

Load(book, file) ==
    IF file.readable
    THEN [FoldLeft(ReadLine, [book |-> Cleared(book), current |-> NoKey], file.lines).book
             EXCEPT !.loaded = TRUE]
    ELSE Cleared(book)

(* The entries of a position, none if it comes too late in the game. *)
Lookup(book, text) ==
    IF BookKey(text) = NoKey \/ (book.maxPly > 0 /\ text.ply > book.maxPly) THEN <<>>
    ELSE book.entries[BookKey(text)]

-----------------------------------------------------------------------------
(* What a file says of a position, at whatever ply: the lines of the entries for
   which the last text above them is this one's; and until which ply it says
   anything. *)
Above(lines, i, kind) == {j \in 1 .. (i - 1) : lines[j].kind = kind}

Said(lines, key) ==
    {i \in DOMAIN lines : /\ lines[i].kind = "entry" /\ Above(lines, i, "sfen") # {}
                          /\ BookKey(lines[Max(Above(lines, i, "sfen"))].text) = key}

LastPly(lines) ==
    LET limits == {i \in DOMAIN lines : lines[i].kind = "limit" /\ lines[i].n > 0}
    IN IF limits = {} THEN 0 ELSE lines[Max(limits)].n
=============================================================================
