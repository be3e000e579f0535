------------------------------ MODULE IndiParser ------------------------------
(***************************************************************************)
(* How the INDI client (and its test double) cuts the bytes of a socket    *)
(* into top-level elements (indi/_protocol.py). There is no root element   *)
(* and recv() cuts anywhere: the parser keeps a buffer and scans it for    *)
(* the end of the first element every time bytes arrive. Each fragment     *)
(* goes to a fresh expat parser, which is outside this module.             *)
(*                                                                         *)
(* A character is "<", ">", "/", "?" (standing for ? and !), "q", the      *)
(* double quotation mark, or "a", the apostrophe. What a driver sends is a *)
(* sequence of tokens, well nested or not.                                 *)
(***************************************************************************)
EXTENDS Integers, Sequences, FiniteSets, SequencesExt

CONSTANTS Tokens,      \* the texts the wire is made of, as sequences of characters
          MaxTokens    \* bound on their number

VARIABLES wire, fed, buffer, fragments
parserVars == <<wire, fed, buffer, fragments>>

Quotes == {"q", "a"}
Chars == {"<", ">", "/", "?"} \cup Quotes

Least(S) == IF S = {} THEN 0 ELSE CHOOSE i \in S : \A j \in S : i <= j
From(b, i, c) == {j \in i..Len(b) : b[j] = c}

\* The quotation one is in ("none" outside any) after one more character: only the mark that has
\* opened it ends it.
Pass(quote, c) ==
  IF quote = c THEN "none" ELSE IF quote = "none" /\ c \in Quotes THEN c ELSE quote

(***************************************************************************)
(* The scan. Zero stands for "not complete yet".                           *)
(***************************************************************************)
\* MUTANT (of FindUnquotedGt): any quotation mark ends a quotation.
FindGt(b, i) ==
  Least({j \in From(b, i, ">") : Cardinality({k \in i..j : b[k] \in Quotes}) % 2 = 0})

FindUnquotedGt(b, i) ==
  Least({j \in From(b, i, ">") : FoldLeft(Pass, "none", SubSeq(b, i, j)) = "none"})

\* A tag that opens at b[i]: where it ends, and what it adds to the depth.
TagEnd(b, i) ==
  IF i < Len(b) /\ b[i + 1] = "?" THEN Least(From(b, i, ">")) ELSE FindUnquotedGt(b, i + 1)

TagDepth(b, i) ==
  CASE b[i + 1] = "?" -> 0
    [] b[i + 1] = "/" -> -1
    [] OTHER -> IF b[TagEnd(b, i) - 1] = "/" THEN 0 ELSE 1

ElementEnd(b) ==
  LET end[i \in Nat, depth \in Int] ==
        LET tag == Least(From(b, i, "<"))
        IN IF tag = 0 \/ TagEnd(b, tag) = 0 THEN 0
           ELSE LET now == depth + TagDepth(b, tag)
                IN IF now <= 0 THEN TagEnd(b, tag) ELSE end[TagEnd(b, tag) + 1, now]
  IN end[1, 0]

\* feed() extracts as long as an element is complete; text that holds no tag
\* is dropped, an unfinished element waits.
Extract(b) ==
  LET cut[s \in Seq(Chars)] ==
        LET end == ElementEnd(s)
        IN IF From(s, 1, "<") = {} THEN [found |-> <<>>, rest |-> <<>>]
           ELSE IF end = 0 THEN [found |-> <<>>, rest |-> s]
           ELSE LET more == cut[SubSeq(s, end + 1, Len(s))]
                IN [found |-> <<SubSeq(s, Least(From(s, 1, "<")), end)>> \o more.found,
                    rest |-> more.rest]
  IN cut[b]

Feed(n) ==
  LET cut == Extract(buffer \o SubSeq(wire, fed + 1, fed + n))
  IN /\ fed + n <= Len(wire)
     /\ fed' = fed + n
     /\ buffer' = cut.rest
     /\ fragments' = fragments \o cut.found
     /\ UNCHANGED wire

ParserInit ==
  /\ wire \in {FlattenSeq(t) : t \in BoundedSeq(Tokens, MaxTokens)}
  /\ fed = 0 /\ buffer = <<>> /\ fragments = <<>>

ParserNext == \E n \in 1..Len(wire) : Feed(n)

-------------------------------------------------------------------------------
\* Types; no fragment is empty (IncrementalIndiParser).
ParserTypeOK ==
  /\ fed \in 0..Len(wire)
  /\ buffer \in Seq(Chars)
  /\ \A i \in DOMAIN fragments : fragments[i] # <<>>

(***************************************************************************)
(* What the stream means, one character at a time: in is where the reader  *)
(* stands ("text", "tag", "declaration", or the mark of a quotation), open *)
(* the part of the current element it has read.                            *)
(***************************************************************************)
Reader == [in |-> "text", depth |-> 0, delta |-> 0, open |-> <<>>, done |-> <<>>]

ReadTag(r, c) ==
  LET first == Last(r.open) = "<"
  IN CASE c = ">" ->
            LET depth == r.depth + (IF r.delta = 1 /\ Last(r.open) = "/" THEN 0 ELSE r.delta)
                open == Append(r.open, c)
            IN IF depth <= 0 THEN [Reader EXCEPT !.done = Append(r.done, open)]
               ELSE [r EXCEPT !.in = "text", !.depth = depth, !.open = open]
       [] c \in Quotes -> [r EXCEPT !.in = c, !.open = Append(@, c)]
       [] c = "?" /\ first -> [r EXCEPT !.in = "declaration", !.delta = 0, !.open = Append(@, c)]
       [] c = "/" /\ first -> [r EXCEPT !.delta = -1, !.open = Append(@, c)]
       [] OTHER -> [r EXCEPT !.open = Append(@, c)]

Read(r, c) ==
  CASE r.in = "tag" -> ReadTag(r, c)
    [] r.in = "declaration" /\ c = ">" -> ReadTag(r, c)
    [] r.in \in Quotes /\ c = r.in -> [r EXCEPT !.in = "tag", !.open = Append(@, c)]
    [] r.in = "text" /\ c = "<" -> [r EXCEPT !.in = "tag", !.delta = 1, !.open = Append(@, c)]
    [] r.in = "text" /\ r.open = <<>> -> r
    [] OTHER -> [r EXCEPT !.open = Append(@, c)]

\* However recv() cuts the stream, the parser has handed on exactly the
\* top-level elements of what has arrived, each once and in order
\* (_extract_next_fragment, feed).
CutAsSent == fragments = FoldLeft(Read, Reader, SubSeq(wire, 1, fed)).done
===============================================================================
