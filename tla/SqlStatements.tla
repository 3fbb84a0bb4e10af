---------------------------- MODULE SqlStatements ----------------------------
(***************************************************************************)
(* Where a SQL text is cut into statements.  Two lexers of this repository *)
(* decide it: splitSqlStatements of the editor                             *)
(* (components/sql-editor.tsx), and CheckSingleStatement of the native     *)
(* side (dbcore/sqlsafety/sqlsafety.go), which refuses a request in which  *)
(* any of its dialect modes sees a second statement.                       *)
(*                                                                         *)
(* A text is a sequence of character classes: "k" a word that starts a     *)
(* statement (STATEMENT_STARTS), "x" any other word, "n" a line end, and   *)
(* the punctuation the lexers look at, each for itself.                    *)
(***************************************************************************)
EXTENDS Integers, Sequences, FiniteSetsExt, SequencesExt

CONSTANTS
    Char,       \* the classes that texts are made of
    MaxLength   \* bound: the length of a text

ASSUME SqlTextAssumption ==
    /\ Char \subseteq {"k", "x", "n", "quote", "double", "$", "-", "/", "*", ";"}
    /\ MaxLength \in Nat

VARIABLE sqlText   \* what has been typed

Word == {"k", "x"}
Quote == {"quote", "double"}

\* w occurs in s at position i.
At(s, i, w) == i + Len(w) - 1 <= Len(s) /\ SubSeq(s, i, i + Len(w) - 1) = w

\* The first position from i on where w occurs, or 0.
IndexOf(s, i, w) ==
    LET places == {j \in i .. Len(s) : At(s, j, w)}
    IN  IF places = {} THEN 0 ELSE Min(places)

LineEnd(s, i) == LET e == IndexOf(s, i, <<"n">>) IN IF e = 0 THEN Len(s) + 1 ELSE e

\* The position after the closer of the span opened at i, where a doubled closer
\* stands for itself; 0 when the span is not terminated.
AfterCloser(s, i, closer) ==
    LET scan[j \in i + 1 .. Len(s) + 2] ==
          IF j > Len(s) THEN 0
          ELSE IF s[j] # closer THEN scan[j + 1]
          ELSE IF At(s, j, <<closer, closer>>) THEN scan[j + 2]
          ELSE j + 1
    IN  scan[i + 1]

\* The dollar tag that starts at i ($$ or $word$), or the empty sequence.
TagAt(s, i) ==
    LET e == IndexOf(s, i + 1, <<"$">>)
    IN  IF s[i] = "$" /\ e # 0 /\ \A j \in i + 1 .. e - 1 : s[j] \in Word
        THEN SubSeq(s, i, e) ELSE <<>>

\* The positions that skip, which maps a position to the one after the token it
\* starts, leaves visible.
Visible(s, skip) ==
    LET from[i \in 1 .. Len(s) + 1] ==
          IF i > Len(s) THEN {}
          ELSE IF skip[i] > i THEN from[skip[i]] ELSE {i} \cup from[i + 1]
    IN  from[1]

-----------------------------------------------------------------------------
(* The editor.  An unterminated quote or comment reaches the end of the     *)
(* text; an unterminated dollar tag reaches the last positions where the    *)
(* closing tag would still fit.                                             *)

OrEnd(s, e) == IF e = 0 THEN Len(s) + 1 ELSE e

EditorSkipAt(s, i) ==
    CASE At(s, i, <<"-", "-">>) -> LineEnd(s, i)
      [] At(s, i, <<"/", "*">>) ->
            (LET e == IndexOf(s, i + 2, <<"*", "/">>) IN IF e = 0 THEN Len(s) + 1 ELSE e + 2)
      [] s[i] \in Quote -> OrEnd(s, AfterCloser(s, i, s[i]))
      [] TagAt(s, i) # <<>> ->
            (LET tag == TagAt(s, i)
                 e == IndexOf(s, i + Len(tag), tag)
             IN  IF e # 0 THEN e + Len(tag)
                 ELSE Max({i + Len(tag), Len(s) - Len(tag) + 2}))
      [] OTHER -> i

\* Mutant: a line comment is not skipped.
EditorSkipNoComment(s, i) == IF At(s, i, <<"-", "-">>) THEN i ELSE EditorSkipAt(s, i)

EditorSkip(s, i) == EditorSkipAt(s, i)

EditorVisible(s) == Visible(s, [i \in 1 .. Len(s) |-> EditorSkip(s, i)])

\* The semicolons at which splitSqlStatements cuts.
EditorCuts(s) == {i \in EditorVisible(s) : s[i] = ";"}

\* splitBlankLineGroups on one part: its groups are the maximal runs of lines
\* that are not blank, and it is cut between them when each starts a statement.
Lines(first, last, s) == {i \in first .. last : s[i] # "n" /\ (i = first \/ s[i - 1] = "n")}

GroupStarts(first, last, s) ==
    {i \in Lines(first, last, s) :
        \/ Lines(first, i - 1, s) = {}
        \/ i - 2 >= first /\ s[i - 1] = "n" /\ s[i - 2] = "n"}

BlankLineCuts(first, last, s) ==
    LET starts == GroupStarts(first, last, s)
    IN  IF Cardinality(starts) > 1 /\ \A i \in starts : s[i] = "k"
        THEN starts \ {Min(starts)} ELSE {}

\* The first position of each statement after a blank line.
EditorBlankCuts(s) ==
    LET bounds == {0, Len(s) + 1} \cup EditorCuts(s)
    IN  UNION {BlankLineCuts(a + 1, Min({b \in bounds : b > a}) - 1, s)
                 : a \in bounds \ {Len(s) + 1}}

-----------------------------------------------------------------------------
(* The native side, in the ANSI mode of lexModes (the other modes only make  *)
(* it refuse more): an unterminated span stays visible.                     *)

OrHere(i, e) == IF e = 0 THEN i ELSE e

DollarQuoteEnd(s, i) ==
    LET tag == TagAt(s, i)
    IN  IF (i > 1 /\ s[i - 1] \in Word \cup {"$"}) \/ tag = <<>> THEN i
        ELSE LET e == IndexOf(s, i + Len(tag), tag) IN IF e = 0 THEN i ELSE e + Len(tag)

SkipNoise(s, i) ==
    CASE s[i] \in Quote -> OrHere(i, AfterCloser(s, i, s[i]))
      [] s[i] = "$" -> DollarQuoteEnd(s, i)
      [] At(s, i, <<"-", "-">>) -> LineEnd(s, i)
      [] At(s, i, <<"/", "*">>) ->
            (LET e == IndexOf(s, i + 2, <<"*", "/">>) IN IF e = 0 THEN i ELSE e + 2)
      [] OTHER -> i

NativeVisible(s) == Visible(s, [i \in 1 .. Len(s) |-> SkipNoise(s, i)])

\* The semicolons that CheckSingleStatement sees; it passes one at the end only.
NativeSemicolons(s) == {i \in NativeVisible(s) : s[i] = ";"}

-----------------------------------------------------------------------------
\* The user types.
TypeChar(c) ==
    /\ Len(sqlText) < MaxLength
    /\ sqlText' = Append(sqlText, c)

SqlTextInit == sqlText = <<>>
SqlTextNext == \E c \in Char : TypeChar(c)
SqlTextSpec == SqlTextInit /\ [][SqlTextNext]_sqlText

-----------------------------------------------------------------------------
(* Properties.                                                              *)

\* Every quote, comment and dollar tag that the native lexer would leave open is
\* closed, and no dollar sign stands inside an identifier (the editor takes one
\* for a tag, the native side does not).
WellFormed(s) ==
    /\ \A i \in NativeVisible(s) :
          s[i] \notin Quote /\ ~At(s, i, <<"/", "*">>) /\ TagAt(s, i) = <<>>
    /\ \A i \in 2 .. Len(s) : s[i] = "$" => s[i - 1] \notin Word

\* On a well-formed text of the ANSI dialect the editor cuts at exactly the
\* semicolons that the native side counts: it neither cuts a literal or comment
\* in two nor sends two statements in one request.
CutsWhereNativeSees ==
    WellFormed(sqlText) =>
        EditorCuts(sqlText) = NativeSemicolons(sqlText)

\* "Split SQL into individual statements by semicolons, respecting string
\* literals, dollar-quoting [...] Also supports blank-line-separated keyword
\* groups": no statement starts inside a literal, quotation or comment.
StatementsStartOutside ==
    WellFormed(sqlText) => EditorBlankCuts(sqlText) \subseteq NativeVisible(sqlText)
=============================================================================
