------------------------------ MODULE TextSplit ------------------------------
(***************************************************************************)
(* How a long text is cut: split_message (telegram.rs) for the messages of *)
(* the Bot API, chunk_text (chunking.rs) for the vectors of the memory     *)
(* system.  Each turn of the loop of either is a step.                     *)
(*                                                                         *)
(* A text is a sequence of characters; lengths are counted in bytes, as in *)
(* the code, and "w" is a character of two bytes.  A chunk is the pair of  *)
(* its first and last place in the text.  The three sentence ends ". ",    *)
(* "! " and "? " are one.                                                  *)
(***************************************************************************)
EXTENDS Naturals, Sequences, FiniteSets, FiniteSetsExt

CONSTANTS
  MaxText,    \* bound: characters of a text
  MaxLen,     \* bytes of a chunk: 4096 for Telegram, the tokens of the embedder
  Overlap     \* bytes two chunks of the memory system share

SplitAssumption ==
  /\ {MaxText, MaxLen, Overlap} \subseteq Nat
  /\ MaxLen >= 2 /\ 2 * Overlap <= MaxLen

Char == {"a", "w", ".", " ", "nl"}
Blank == {" ", "nl"}

VARIABLES
  cutter,  \* which of the two is at work
  text,
  at,      \* characters of the text the loop is done with
  chunks

vars == <<cutter, text, at, chunks>>

Bytes(lo, hi) ==
  Cardinality(lo..hi) + Cardinality({i \in lo..hi : text[i] = "w"})

Init ==
  /\ cutter \in {"telegram", "memory"}
  /\ text \in UNION {[1..n -> Char] : n \in 1..MaxText}
  /\ at = 0 /\ chunks = <<>>

---------------------------------------------------------------------------
(* Where pattern p lies in lo..hi, and the last place it ends at.          *)
Ends(p, lo, hi) ==
  {e \in (lo + Len(p) - 1)..hi : \A i \in DOMAIN p : text[e - Len(p) + i] = p[i]}

Paragraph == <<"nl", "nl">>
Line == <<"nl">>
Sentence == <<".", " ">>
Word == <<" ">>

(* The last end of the first of the patterns that occurs, or else hi.      *)
BestEnd(patterns, lo, hi) ==
  LET found == {i \in DOMAIN patterns : Ends(patterns[i], lo, hi) # {}}
  IN IF found = {} THEN hi ELSE Max(Ends(patterns[Min(found)], lo, hi))

(* floor_char_boundary: the longest prefix that fits.                      *)
Fitting == Max({hi \in at..Len(text) : Bytes(at + 1, hi) <= MaxLen})

(* find_split_point.  A pattern at the very start of the window is passed  *)
(* over, and its next kind is tried.                                       *)
SplitPoint ==
  BestEnd(<<Paragraph, Line, Sentence, Word>>, at + 2, Fitting)

TrimmedEnd(hi) == Max({at} \cup {i \in (at + 1)..hi : text[i] \notin Blank})
TrimmedStart(hi) ==
  Min({Len(text)} \cup {i \in hi..(Len(text) - 1) : text[i + 1] \notin Blank})

(* Mutant: the text goes on where the window ended, not where it was cut.  *)
WindowAgain(hi) == TrimmedStart(Fitting)
After(hi) == TrimmedStart(hi)

SplitMessage ==
  /\ cutter = "telegram" /\ at < Len(text)
  /\ IF Bytes(at + 1, Len(text)) <= MaxLen
     THEN chunks' = Append(chunks, <<at + 1, Len(text)>>) /\ at' = Len(text)
     ELSE /\ chunks' = Append(chunks, <<at + 1, TrimmedEnd(SplitPoint)>>)
          /\ at' = After(SplitPoint)
  /\ UNCHANGED <<cutter, text>>

---------------------------------------------------------------------------
(* snap_to_char_boundary: the first place n bytes or more after at.        *)
Snap(n) == Min({Len(text)} \cup {hi \in at..Len(text) : Bytes(at + 1, hi) >= n})

(* find_break_point: looked for in the last quarter.                       *)
BreakPoint ==
  LET end == Snap(MaxLen)
      from == Snap((3 * Bytes(at + 1, end)) \div 4)
  IN IF end = Len(text) THEN end
     ELSE BestEnd(<<Sentence, Line, Word>>, from + 1, end)

(* Mutant: the next chunk begins where this one ends.                      *)
AdvanceWhole(n) == n
Advance(n) == IF n > Overlap THEN n - Overlap ELSE 1

ChunkText ==
  /\ cutter = "memory" /\ at < Len(text)
  /\ chunks' = Append(chunks, <<at + 1, BreakPoint>>)
  /\ at' = IF BreakPoint = Len(text) THEN Len(text)
           ELSE Snap(Advance(Bytes(at + 1, BreakPoint)))
  /\ UNCHANGED <<cutter, text>>

Next == SplitMessage \/ ChunkText

Spec == Init /\ [][Next]_vars

---------------------------------------------------------------------------
TypeOK ==
  /\ at \in 0..Len(text)
  /\ \A c \in DOMAIN chunks : chunks[c] \in (1..Len(text)) \X (0..Len(text))

Covered == UNION {chunks[c][1]..chunks[c][2] : c \in DOMAIN chunks}

(* A text is cut into pieces that fit, and nothing of it but white space   *)
(* between two messages is lost: whatever its sentences, paragraphs and    *)
(* wide characters.  Each chunk begins after the chunk before it, so the   *)
(* loop ends; only the first message can be empty, if the text begins with *)
(* white space (the Bot API refuses an empty message).                     *)
CutsAreSound ==
  /\ \A i \in (1..at) \ Covered : cutter = "telegram" /\ text[i] \in Blank
  /\ \A c \in DOMAIN chunks :
       LET lo == chunks[c][1]  hi == chunks[c][2] IN
       /\ Bytes(lo, hi) <= IF cutter = "telegram" THEN MaxLen ELSE MaxLen + 1
       /\ c > 1 => chunks[c - 1][1] < lo
       /\ hi < lo => c = 1 /\ text[1] \in Blank

(* "Split text into overlapping chunks" (chunking.rs:27): a chunk of the   *)
(* memory system begins with the end of the chunk before it, as many whole *)
(* characters of it as Overlap bytes hold and not one more, wherever the   *)
(* break between them was found.                                           *)
ChunksOverlap ==
  cutter = "memory" => \A c \in 2..Len(chunks) :
    LET lo == chunks[c][1]  hi == chunks[c - 1][2] IN
    Bytes(lo, hi) <= Overlap /\ Bytes(lo - 1, hi) > Overlap
=============================================================================
