------------------------------ MODULE Sanitizer ------------------------------
(***************************************************************************)
(* sanitize.rs: what becomes of a text before the game may see it.         *)
(*                                                                         *)
(* A text is a sequence of characters; a character stands for all that the *)
(* code treats alike, and the tags <think> and </think> are two characters *)
(* each, so that a tag can come to be: when a block between its halves is   *)
(* taken out, when a character there is dropped, or when a letter with an   *)
(* accent loses it.  A reason token of the protocol is one character with        *)
(* letters.  Lengths are counted in characters; the numbers are small in   *)
(* the instances and keep their order.                                     *)
(***************************************************************************)
EXTENDS Integers, Sequences, SequencesExt

CONSTANTS
    MaxText,    \* MAX_TEXT
    MinWordCut, \* MIN_WORD_CUT
    Tokens      \* the reason tokens

Ellipsis == <<".", ".", ".">>

ASSUME CapAssumption ==
    /\ MaxText \in Nat /\ MinWordCut \in Nat
    /\ MinWordCut <= MaxText - Len(Ellipsis)

Open   == <<"<thi", "nk>">>
Close  == <<"</thi", "nk>">>
Letter == {"a", "<thi", "</thi", "nk>"} \cup Tokens
Digits == {"0", "1", "2", "3", "4", "5", "6", "7", "8", "9"}

\* What the game gets as it is, and all that a text may be made of.
Plain      == Letter \cup Digits \cup {" ", ".", "-", "/", "(", ")"}
Translated == {"e'", "ae", "<thi'", "dash", "...", "nbsp", "rune", "tab", "^", "|", "{", "}"}
Char       == Plain \cup Translated

ASSUME TokenAssumption ==
    Tokens \cap (Translated \cup Digits \cup {" ", "-"}) = {} /\ "empty_reply" \in Tokens

-----------------------------------------------------------------------------
(* Steps 1 to 6                                                             *)

\* One character more: `last` is what a tag may have begun with.
Scans(scan, c) ==
    LET tag == <<scan.last, c>>
    IN  CASE ~scan.inside /\ tag = Open  -> [out |-> Front(scan.out), inside |-> TRUE, last |-> ""]
          [] ~scan.inside /\ tag # Open  -> [out |-> Append(scan.out, c), inside |-> FALSE, last |-> c]
          [] scan.inside  /\ tag = Close -> [out |-> scan.out, inside |-> FALSE, last |-> ""]
          [] scan.inside  /\ tag # Close -> [out |-> scan.out, inside |-> TRUE, last |-> c]

\* Step 1: every <think>...</think> is taken out, and an unclosed one with all
\* that follows it.
StripThink(s) ==
    LET scan[i \in 0 .. Len(s)] == IF i = 0 THEN [out |-> <<>>, inside |-> FALSE, last |-> ""]
                                   ELSE Scans(scan[i - 1], s[i])
    IN  scan[Len(s)].out

\* Steps 2 to 5, one character at a time: the transliteration table (an e with
\* an accent, ae, half a tag whose i has two dots, a long dash, an ellipsis, a typographic space; the rest has no
\* entry), control characters, and the characters the engine would interpret.
Shown(c, side) ==
    CASE c = "e'"   -> <<"a">>
      [] c = "ae"   -> <<"a", "a">>
      [] c = "<thi'" -> <<"<thi">>
      [] c = "dash" -> <<"-">>
      [] c = "..."  -> Ellipsis
      [] c = "nbsp" -> <<" ">>
      [] c = "rune" -> IF side = "input" THEN <<"?">> ELSE <<>>
      [] c \in {"tab", "^"} -> <<" ">>
      [] c = "|"    -> <<"/">>
      [] c = "{" /\ side = "output" -> <<"(">>
      [] c = "}" /\ side = "output" -> <<")">>
      [] OTHER      -> <<c>>

\* Step 6: runs of spaces become one space, and none is left at the ends.
Adds(out, c) == IF c = " " /\ (out = <<>> \/ Last(out) = " ") THEN out ELSE Append(out, c)
Collapse(s) ==
    LET spaced[i \in 0 .. Len(s)] == IF i = 0 THEN <<>> ELSE Adds(spaced[i - 1], s[i])
        all == spaced[Len(s)]
    IN  IF all # <<>> /\ Last(all) = " " THEN Front(all) ELSE all

Clean(raw, side) == Collapse(FlattenSeq([i \in DOMAIN StripThink(raw) |->
                                            Shown(StripThink(raw)[i], side)]))

-----------------------------------------------------------------------------
(* Steps 7 and 8                                                            *)

\* The last space at or before the limit (an index from 0, as in the code).
WordCuts(s, limit) == {i \in MinWordCut .. limit : s[i + 1] = " "}

\* Step 7: an overlong text ends at a word, or is cut hard, and then "...".
Cap(s) ==
    LET limit == MaxText - Len(Ellipsis)
        cuts  == WordCuts(s, limit)
        cut   == IF cuts = {} THEN limit ELSE CHOOSE i \in cuts : \A j \in cuts : j <= i
    IN  IF Len(s) <= MaxText THEN s ELSE SubSeq(s, 1, cut) \o Ellipsis

\* Mutant of HasLetter: a digit counts, too.
HasLetter_OrDigit(s) == \E i \in DOMAIN s : s[i] \in Letter \cup {"1"}

HasLetter(s) == \E i \in DOMAIN s : s[i] \in Letter

\* The text to send, or Err("empty_reply").
SanitizeText(raw) ==
    LET text == Cap(Clean(raw, "output"))
    IN  [ok |-> HasLetter(text), text |-> IF HasLetter(text) THEN text ELSE <<"empty_reply">>]

SanitizeInput(raw) == Clean(raw, "input")
=============================================================================
