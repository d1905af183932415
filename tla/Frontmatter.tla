------------------------------ MODULE Frontmatter ------------------------------
(***************************************************************************)
(* How an entry is written to its file and read back (hearthmem/           *)
(* frontmatter.py).  A line is the sequence of its characters, a text the  *)
(* sequence of its lines; a value of the front matter is one line, or a    *)
(* list of such.  MemoryStore takes it that a whole file reads back as it  *)
(* was meant and that a file without its second delimiter does not.        *)
(***************************************************************************)
EXTENDS Naturals, Sequences, SequencesExt

\* Characters, the backslash and the quotes by name.  "sp" is what strip takes
\* off a line; none of them breaks a line for splitlines.
CONSTANT Char

ASSUME CharAssumption == {"bs", "dq", "sq", "sp", ":", "-", "[", "]"} \subseteq Char

Line == Seq(Char)
Value == [list : BOOLEAN, items : Seq(Line)]
Entry == [meta : Seq(Line \X Value), body : Seq(Line)]

DELIM == <<"-", "-", "-">>
Quotes == {"dq", "sq"}

\* One or more characters of a line, taken off both ends.
Strip(line, char) ==
    LET kept == {i \in DOMAIN line : line[i] # char} IN
    IF kept = {} THEN <<>>
    ELSE SubSeq(line, CHOOSE i \in kept : \A j \in kept : i <= j,
                      CHOOSE i \in kept : \A j \in kept : i >= j)

Scalar(value) == [list |-> FALSE, items |-> <<value>>]
List(items) == [list |-> TRUE, items |-> items]

\* What a store writes: keys that are different names, and no empty line at
\* either end of a body.
Written(entry) ==
    /\ entry \in Entry
    /\ \A i, j \in DOMAIN entry.meta : i # j => entry.meta[i][1] # entry.meta[j][1]
    /\ \A i \in DOMAIN entry.meta :
         /\ entry.meta[i][1] # <<>>
         /\ \A j \in DOMAIN entry.meta[i][1] : entry.meta[i][1][j] \notin {":", "sp", "-"}
         /\ entry.meta[i][2].list \/ Len(entry.meta[i][2].items) = 1
    /\ entry.body # <<>> => entry.body[1] # <<>> /\ Last(entry.body) # <<>>

--------------------------------------------------------------------------------
(***************************************************************************)
(* Writing.                                                                *)
(***************************************************************************)
\* Mutant: only the quote is escaped.
EscapedQuote(char) == IF char = "dq" THEN <<"bs", char>> ELSE <<char>>

Escaped(char) == IF char \in {"bs", "dq"} THEN <<"bs", char>> ELSE <<char>>

quote(value) == <<"dq">> \o FlattenSeq([i \in DOMAIN value |-> Escaped(value[i])]) \o <<"dq">>

\* The lines of one key: a scalar, an empty list, or a list.
LinesOf(key, value) ==
    IF ~value.list THEN <<key \o <<":", "sp">> \o quote(value.items[1])>>
    ELSE IF value.items = <<>> THEN <<key \o <<":", "sp", "[", "]">>>>
    ELSE <<key \o <<":">>>> \o
         [i \in DOMAIN value.items |-> <<"sp", "sp", "-", "sp">> \o quote(value.items[i])]

\* meta is the sequence of its <<key, value>> pairs; the body has no empty
\* line at its end.
dumps(meta, body) ==
    <<DELIM>> \o FlattenSeq([i \in DOMAIN meta |-> LinesOf(meta[i][1], meta[i][2])])
        \o <<DELIM>> \o (IF body = <<>> THEN <<>> ELSE <<<<>>>> \o body)

--------------------------------------------------------------------------------
(***************************************************************************)
(* Reading.                                                                *)
(***************************************************************************)
\* A character of a quoted value is kept, unless it is the backslash of an
\* escape.
Take(acc, char) ==
    IF acc.escaped \/ char # "bs" THEN [escaped |-> FALSE, out |-> Append(acc.out, char)]
    ELSE [escaped |-> TRUE, out |-> acc.out]

\* What has been taken of the first n characters.
Taken(body) ==
    LET after[n \in 0 .. Len(body)] ==
            IF n = 0 THEN [escaped |-> FALSE, out |-> <<>>] ELSE Take(after[n - 1], body[n])
    IN after

Unescape(body) ==
    LET end == Taken(body)[Len(body)] IN
    IF end.escaped THEN Append(end.out, "bs") ELSE end.out

unquote(raw) ==
    LET value == Strip(raw, "sp")
        inside == SubSeq(value, 2, Len(value) - 1)
    IN IF Len(value) >= 2 /\ value[1] = value[Len(value)] /\ value[1] \in Quotes
       THEN IF value[1] = "dq" THEN Unescape(inside) ELSE inside
       ELSE value

\* The part of a line before the first occurrence of a character, and after.
First(line, char) == CHOOSE i \in DOMAIN line : line[i] = char /\ \A j \in 1 .. i - 1 : line[j] # char
Until(line, char) == SubSeq(line, 1, First(line, char) - 1)
After(line, char) == SubSeq(line, First(line, char) + 1, Len(line))

Refuse(acc) == [acc EXCEPT !.bad = TRUE]

\* "- x" under a key whose value so far is a list.
AddItem(acc, line) ==
    IF acc.meta = <<>> \/ ~Last(acc.meta)[2].list THEN Refuse(acc)
    ELSE LET key == Last(acc.meta)[1]
             items == Last(acc.meta)[2].items
         IN [acc EXCEPT !.meta =
                Append(Front(@), <<key, List(Append(items, unquote(After(line, "-"))))>>)]

AddKey(acc, line) ==
    LET rest == Strip(After(line, ":"), "sp") IN
    [acc EXCEPT !.meta = Append(@, <<Strip(Until(line, ":"), "sp"),
        IF rest \in {<<>>, <<"[", "]">>} THEN List(<<>>) ELSE Scalar(unquote(rest))>>)]

\* One line of the front matter.
ReadLine(acc, line) ==
    IF acc.bad \/ acc.end THEN [acc EXCEPT !.body = IF acc.end THEN Append(@, line) ELSE @]
    ELSE IF Strip(line, "sp") = DELIM THEN [acc EXCEPT !.end = TRUE]
    ELSE IF IsPrefix(<<"sp", "sp", "-", "sp">>, line) \/ IsPrefix(<<"-", "sp">>, line)
         THEN AddItem(acc, line)
    ELSE IF ~Contains(line, ":") THEN Refuse(acc)
    ELSE AddKey(acc, line)

\* What has been read of the first n lines.
Reads(lines) ==
    LET after[n \in 0 .. Len(lines)] ==
            IF n = 0 THEN [bad |-> FALSE, end |-> FALSE, meta |-> <<>>, body |-> <<>>]
            ELSE ReadLine(after[n - 1], lines[n])
    IN after

\* loads: bad stands for FrontmatterError.
loads(text) ==
    IF text = <<>> \/ Strip(text[1], "sp") # DELIM
    THEN [bad |-> TRUE, end |-> FALSE, meta |-> <<>>, body |-> <<>>]
    ELSE LET read == Reads(Tail(text))[Len(text) - 1]
         IN [read EXCEPT !.bad = @ \/ ~read.end, !.body = Strip(@, <<>>)]
================================================================================
