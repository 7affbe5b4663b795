------------------------------- MODULE Formats ------------------------------
(***************************************************************************)
(* The texts a value is written to and read back from: JSON (object.c) and *)
(* CSV (shell.c).                                                          *)
(***************************************************************************)
EXTENDS Values

-----------------------------------------------------------------------------
(* JSON.  The keywords are one character each.                               *)

Quote == "\""
Escape(t) == FlattenSeq([i \in DOMAIN t |-> IF t[i] \in {Quote, "\\"} THEN <<"\\", t[i]>>
                                            ELSE IF t[i] = "nl" THEN <<"\\", "n">> ELSE <<t[i]>>])
Quoted(t) == <<Quote>> \o Escape(t) \o <<Quote>>

(* value_to_json_text and value_item_to_json_text: every nested value is     *)
(* written by the same rules.                                               *)
RECURSIVE ToJson(_)
ToJson(v) ==
    CASE Kind(v) = "string"  -> Quoted(v[2])
      [] Kind(v) = "number"  -> NumberText(v[2])
      [] Kind(v) = "boolean" -> IF v[2] THEN True ELSE False
      [] Kind(v) = "object"  -> Quoted(v[2])
      [] Kind(v) = "empty"   -> <<"null">>
      [] Kind(v) = "list"    ->
            <<"[">> \o Joined([i \in DOMAIN v[2] |-> ToJson(v[2][i])], <<",">>) \o <<"]">>
      [] Kind(v) \in {"map", "dict"} ->
            <<"{">> \o Joined([i \in DOMAIN v[2] |-> Quoted(v[2][i][1]) \o <<":">> \o ToJson(v[2][i][2])],
                              <<",">>) \o <<"}">>
      [] Kind(v) = "matrix"  ->
            <<"[">> \o Joined([r \in DOMAIN v[2][2] |->
                        <<"{">> \o Joined([c \in DOMAIN v[2][1] |->
                                   Quoted(v[2][1][c]) \o <<":">> \o ToJson(v[2][2][r][c])], <<",">>)
                        \o <<"}">>], <<",">>) \o <<"]">>

JsonAt(t, i) == IF i <= Len(t) THEN t[i] ELSE "end"

(* json_parse_string from the character after the quote.  A raw newline and   *)
(* an unknown escape are errors.                                             *)
RECURSIVE JsonString(_, _)
JsonString(t, i) ==
    IF i > Len(t) THEN [val |-> Error, next |-> i]
    ELSE IF t[i] = Quote THEN [val |-> Text(<<>>), next |-> i + 1]
    ELSE LET esc  == t[i] = "\\"
             e    == JsonAt(t, i + 1)
             c    == IF ~ esc THEN t[i] ELSE IF e = "n" THEN "nl" ELSE e
             rest == JsonString(t, IF esc THEN i + 2 ELSE i + 1)
         IN IF t[i] = "nl" \/ (esc /\ e \notin {Quote, "\\", "n"}) THEN [val |-> Error, next |-> i]
            ELSE IF rest.val = Error THEN rest
            ELSE [rest EXCEPT !.val = Text(<<c>> \o @[2])]

(* a text or a key that does not fit its buffer is refused                   *)
JsonText(t, i, room) == LET s == JsonString(t, i)
                        IN IF Len(s.val[2]) > room THEN [val |-> Error, next |-> i] ELSE s

(* json_parse_value_internal, json_parse_array and json_parse_object.        *)
RECURSIVE JsonValue(_, _, _), JsonItems(_, _, _, _), JsonMembers(_, _, _, _)
JsonValue(t, i, depth) ==
    LET c == JsonAt(t, i)
        last == Max({ j \in i..Len(t) : \A k \in i..j : Digit(t[k]) >= 0 } \cup {i})
    IN CASE depth > MaxJsonDepth -> [val |-> Error, next |-> i]
         [] c = Quote -> JsonText(t, i + 1, MaxOutput)
         [] c = "["   -> IF JsonAt(t, i + 1) = "]" THEN [val |-> List(<<>>), next |-> i + 2]
                         ELSE JsonItems(t, i + 1, depth + 1, <<>>)
         [] c = "{"   -> IF JsonAt(t, i + 1) = "}" THEN [val |-> Map(<<>>), next |-> i + 2]
                         ELSE JsonMembers(t, i + 1, depth + 1, Map(<<>>))
         [] c = "true"  -> [val |-> Bool(TRUE), next |-> i + 1]
         [] c = "false" -> [val |-> Bool(FALSE), next |-> i + 1]
         [] c = "null"  -> [val |-> Empty, next |-> i + 1]
         [] Digit(c) >= 0 /\ ~ (c = "0" /\ last > i) ->
                [val |-> Number(Unsigned(SubSeq(t, i, last))), next |-> last + 1]
         [] OTHER -> [val |-> Error, next |-> i]
JsonItems(t, i, depth, items) ==
    LET v == JsonValue(t, i, depth)
        q == Append(items, v.val)
    IN IF v.val = Error THEN v
       ELSE CASE JsonAt(t, v.next) = "]" -> [val |-> List(q), next |-> v.next + 1]
              [] JsonAt(t, v.next) = "," -> JsonItems(t, v.next + 1, depth, q)
              [] OTHER -> [val |-> Error, next |-> v.next]
JsonMembers(t, i, depth, map) ==
    LET k == IF JsonAt(t, i) = Quote THEN JsonText(t, i + 1, MaxName) ELSE [val |-> Error, next |-> i]
        v == IF k.val # Error /\ JsonAt(t, k.next) = ":" THEN JsonValue(t, k.next + 1, depth)
             ELSE [val |-> Error, next |-> i]
        m == MapSet(map, k.val[2], v.val)
    IN IF v.val = Error \/ m = Error THEN [val |-> Error, next |-> i]
       ELSE CASE JsonAt(t, v.next) = "}" -> [val |-> m, next |-> v.next + 1]
              [] JsonAt(t, v.next) = "," -> JsonMembers(t, v.next + 1, depth, m)
              [] OTHER -> [val |-> Error, next |-> v.next]
FromJson(t) ==
    LET p == JsonValue(t, 1, 0)
    IN IF p.next = Len(t) + 1 THEN p.val ELSE Error
-----------------------------------------------------------------------------
(* CSV.                                                                      *)

Special == {",", Quote, "nl"}

(* csv_write_field                                                           *)
Field(t) == IF \A i \in DOMAIN t : t[i] \notin Special THEN t
            ELSE <<Quote>> \o FlattenSeq([i \in DOMAIN t |-> IF t[i] = Quote THEN <<Quote, Quote>> ELSE <<t[i]>>])
                 \o <<Quote>>
(* a field that does not fit the buffer is left out, the comma before it is  *)
(* not; the buffer is full when not even a comma fits                        *)
ToCsv(m) ==
    LET Mark(buf, c)    == IF Len(buf) < MaxOutput THEN Append(buf, c) ELSE buf
        Put(buf, text)  == IF Len(buf) + Len(text) < MaxOutput THEN buf \o text ELSE buf
        Line(buf, text) ==
            Mark(FoldLeft(LAMBDA b, c : Put(IF c = 1 THEN b ELSE Mark(b, ","), Field(text[c])),
                          buf, [c \in DOMAIN text |-> c]), "nl")
        Cells(row)      == [c \in DOMAIN row |-> CellText(row[c])]
    IN IF Kind(m) # "matrix" THEN Error
       ELSE Text(FoldLeft(Line, Line(<<>>, Cols(m)), [r \in DOMAIN Rows(m) |-> Cells(Rows(m)[r])]))

(* csv_read_field: up to the next delimiter, or to the closing quote; a      *)
(* comma that follows is consumed.                                           *)
RECURSIVE Bare(_, _), InQuotes(_, _)
Bare(t, i) == IF JsonAt(t, i) \in {"end", ",", "nl"} THEN [val |-> <<>>, next |-> i]
              ELSE LET rest == Bare(t, i + 1) IN [rest EXCEPT !.val = <<t[i]>> \o @]
InQuotes(t, i) ==
    IF JsonAt(t, i) = "end" THEN [val |-> <<>>, next |-> i]
    ELSE IF t[i] = Quote /\ JsonAt(t, i + 1) # Quote THEN [val |-> <<>>, next |-> i + 1]
    ELSE LET rest == InQuotes(t, IF t[i] = Quote THEN i + 2 ELSE i + 1)
         IN [rest EXCEPT !.val = <<t[i]>> \o @]
ReadField(t, i) ==
    LET f == IF JsonAt(t, i) = Quote THEN InQuotes(t, i + 1) ELSE Bare(t, i)
    IN IF JsonAt(t, f.next) = "," THEN [f EXCEPT !.next = @ + 1] ELSE f

(* from_csv(): a header, then rows of as many fields; blank lines are        *)
(* skipped, what is left of a line after its last field is dropped.          *)
RECURSIVE Header(_, _, _), Fields(_, _, _, _), Records(_, _, _, _), SkipTo(_, _, _)
SkipTo(t, i, newline) == IF JsonAt(t, i) # "end" /\ (JsonAt(t, i) = "nl") = newline
                         THEN SkipTo(t, i + 1, newline) ELSE i
Header(t, i, names) ==
    LET f == ReadField(t, i)
    IN IF JsonAt(t, i) \in {"end", "nl"} \/ Len(names) >= MaxCols THEN [names |-> names, next |-> i]
       ELSE IF JsonAt(t, f.next) = "nl" THEN [names |-> Append(names, f.val), next |-> f.next]
       ELSE Header(t, f.next, Append(names, f.val))
Fields(t, i, n, row) ==
    IF Len(row) = n THEN [row |-> row, next |-> SkipTo(t, SkipTo(t, i, FALSE), TRUE)]
    ELSE LET f == ReadField(t, i) IN Fields(t, f.next, n, Append(row, Cell(Text(f.val))))
Records(t, i, n, rows) ==
    IF JsonAt(t, i) = "end" \/ Len(rows) >= MaxRows THEN rows
    ELSE IF JsonAt(t, i) = "nl" THEN Records(t, SkipTo(t, i, TRUE), n, rows)
    ELSE LET r == Fields(t, i, n, <<>>) IN Records(t, r.next, n, Append(rows, r.row))
FromCsv(t) ==
    LET h == Header(t, 1, <<>>)
    IN IF h.names = <<>> THEN SetMatrix(<<>>, <<>>)
       ELSE SetMatrix(h.names, Records(t, SkipTo(t, h.next, TRUE), Len(h.names), <<>>))
=============================================================================
