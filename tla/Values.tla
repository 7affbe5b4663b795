------------------------------- MODULE Values -------------------------------
(***************************************************************************)
(* The values of the object layer: what object.c and the map, dict and     *)
(* matrix methods of shell.c compute.  A value is a pair <<kind, content>>. *)
(* A text is a sequence of characters; of the characters only the ones the  *)
(* code looks at are told apart.  A map is a sequence of <<key, value>>     *)
(* pairs in insertion order.  Copies are deep in the code and therefore     *)
(* plain values here; out-of-memory paths are left out.                     *)
(***************************************************************************)
EXTENDS Integers, Sequences, SequencesExt, FiniteSetsExt, Functions, TLC

CONSTANTS MaxPathSegments, \* ARKSH_MAX_VALUE_PATH_SEGMENTS
          MaxJsonDepth,    \* JSON_MAX_DEPTH
          MaxCols,         \* ARKSH_MAX_MATRIX_COLS
          MaxRows,         \* ARKSH_MAX_MATRIX_ROWS
          MaxName,         \* characters of a key, a column name or a cell: ARKSH_MAX_NAME - 1
          MaxPiece,        \* of a text split off another: ARKSH_MAX_VALUE_TEXT - 1
          MaxOutput        \* of a text a stage writes: ARKSH_MAX_OUTPUT - 1

ASSUME LimitsPositive == /\ MaxPathSegments \in Nat \ {0}
                         /\ MaxJsonDepth \in Nat
                         /\ MaxCols \in Nat \ {0}
                         /\ MaxRows \in Nat \ {0}
                         /\ {MaxName, MaxPiece, MaxOutput} \subseteq Nat \ {0}

Number(n)  == <<"number", n>>
Text(s)    == <<"string", s>>
Bool(b)    == <<"boolean", b>>
Path(p)    == <<"object", p>>      \* a file-system object, by its path
List(q)    == <<"list", q>>
Map(e)     == <<"map", e>>
Dict(e)    == <<"dict", e>>
Matrix(names, rows) == <<"matrix", <<names, rows>>>>
Empty      == <<"empty", <<>>>>
Error      == <<"error", <<>>>>    \* the operation returned nonzero
Kind(v)    == v[1]
MapLike(v) == Kind(v) \in {"map", "dict"}

(* copy_string into a fixed buffer                                          *)
Truncated(q, n) == SubSeq(q, 1, Min({Len(q), n}))

-----------------------------------------------------------------------------
(* Maps.                                                                    *)

Keys(e) == { e[i][1] : i \in DOMAIN e }

(* arksh_value_map_get_item: the first entry with the key; Error when there *)
(* is none.                                                                 *)
MapGet(v, key) ==
    IF MapLike(v) /\ key \in Keys(v[2])
    THEN v[2][Min({ i \in DOMAIN v[2] : v[2][i][1] = key })][2]
    ELSE Error

(* arksh_value_map_set: replaces in place or appends; an empty value        *)
(* becomes a map; any other value, and an empty key, are refused.  The key  *)
(* is compared whole and stored cut: a longer one is appended every time.   *)
MapSetAppends(v, key, new) ==
    LET e == IF v = Empty THEN <<>> ELSE v[2]
        k == IF v = Empty THEN "map" ELSE Kind(v)
    IN IF key = <<>> \/ k \notin {"map", "dict"} THEN Error
       ELSE <<k, Append(e, <<Truncated(key, MaxName), new>>)>>
MapSet(v, key, new) ==
    LET e == IF v = Empty THEN <<>> ELSE v[2]
        k == IF v = Empty THEN "map" ELSE Kind(v)
    IN IF key = <<>> \/ k \notin {"map", "dict"} THEN Error
       ELSE IF key \in Keys(e)
       THEN <<k, [e EXCEPT ![Min({ i \in DOMAIN e : e[i][1] = key })] = <<key, new>>]>>
       ELSE <<k, Append(e, <<Truncated(key, MaxName), new>>)>>

(* pick(): the keys that exist, in the order asked for, after the type tag  *)
(* of a map.                                                                *)
TypeTag == <<"__type__">>
Pick(v, keys) ==
    LET tag == IF Kind(v) = "map" /\ TypeTag \in Keys(v[2]) THEN <<TypeTag>> ELSE <<>>
        There(k) == k \in Keys(v[2])
    IN IF ~ MapLike(v) THEN Error
       ELSE FoldLeft(LAMBDA out, k : MapSet(out, k, MapGet(v, k)),
                     <<Kind(v), <<>>>>, SelectSeq(tag \o keys, There))

(* merge(): the entries of the right value are set, one by one, in a copy   *)
(* of the left one.                                                         *)
Merge(l, r) ==
    IF ~ MapLike(l) \/ ~ MapLike(r) THEN Error
    ELSE FoldLeft(LAMBDA out, e : MapSet(out, e[1], e[2]), l, r[2])

MapKeys(v)    == IF MapLike(v) THEN List([i \in DOMAIN v[2] |-> Text(v[2][i][1])]) ELSE Error
MapValues(v)  == IF MapLike(v) THEN List([i \in DOMAIN v[2] |-> v[2][i][2]]) ELSE Error
MapEntries(v) == IF Kind(v) # "map" THEN Error
                 ELSE List([i \in DOMAIN v[2] |->
                              Map(<< <<<<"key">>, Text(v[2][i][1])>>, <<<<"value">>, v[2][i][2]>> >>)])
GetOrEmpty(v, key) == IF ~ MapLike(v) THEN Error
                      ELSE IF key \in Keys(v[2]) THEN MapGet(v, key) ELSE Empty

(* set and delete on a dict: each returns a new one.                         *)
DictSet(v, key, new) == IF Kind(v) # "dict" THEN Error ELSE MapSet(v, key, new)
DictDelete(v, key) ==
    LET Other(e) == e[1] # key
    IN IF Kind(v) # "dict" THEN Error
       ELSE FoldLeft(LAMBDA d, e : MapSet(d, e[1], e[2]), Dict(<<>>), SelectSeq(v[2], Other))

-----------------------------------------------------------------------------
(* Paths: a.b, a[0].b                                                        *)

Digit(c) == CASE c = "0" -> 0 [] c = "1" -> 1 [] c = "2" -> 2 [] c = "3" -> 3 [] c = "4" -> 4
              [] c = "5" -> 5 [] c = "6" -> 6 [] c = "7" -> 7 [] c = "8" -> 8 [] c = "9" -> 9
              [] OTHER -> -1
IsUnsigned(t) == t # <<>> /\ \A i \in DOMAIN t : Digit(t[i]) >= 0
Unsigned(t)   == FoldLeft(LAMBDA n, c : 10 * n + Digit(c), 0, t)

(* parse_value_path_segments: dots separate, brackets delimit; an empty     *)
(* or unterminated bracket, too many segments and no segment at all are     *)
(* errors.                                                                  *)
Close(s) == IF s.mode = "key"
            THEN [s EXCEPT !.segs = Append(@, [text |-> s.cur, bracketed |-> FALSE]),
                           !.cur = <<>>, !.mode = "out"]
            ELSE s
PathChar(s, c) ==
    IF s.mode = "error" THEN s
    ELSE IF s.mode = "bracket"
    THEN IF c # "]" THEN [s EXCEPT !.cur = Append(@, c)]
         ELSE IF s.cur = <<>> THEN [s EXCEPT !.mode = "error"]
         ELSE [s EXCEPT !.segs = Append(@, [text |-> s.cur, bracketed |-> TRUE]),
                        !.cur = <<>>, !.mode = "out"]
    ELSE IF c = "." THEN Close(s)
    ELSE IF c = "[" THEN [Close(s) EXCEPT !.mode = "bracket"]
    ELSE [s EXCEPT !.cur = Append(@, c), !.mode = "key"]

Segments(path) ==
    LET s == FoldLeft(PathChar, [segs |-> <<>>, cur |-> <<>>, mode |-> "out"], path)
        q == Close(s).segs
    IN IF s.mode \in {"error", "bracket"} \/ q = <<>> \/ Len(q) > MaxPathSegments
       THEN <<>>            \* parse error
       ELSE q

(* One step of arksh_value_get_path; Error when there is nothing there.     *)
Member(v, seg) ==
    IF MapLike(v) THEN MapGet(v, seg.text)
    ELSE IF Kind(v) = "list" /\ IsUnsigned(seg.text) /\ Unsigned(seg.text) < Len(v[2])
    THEN v[2][Unsigned(seg.text) + 1]
    ELSE Error
Follow(v, segs) == FoldLeft(Member, v, segs)

(* arksh_value_get_path: the found flag is the difference between Error and *)
(* a value; a malformed path is refused before (GetPath).                   *)
GetPath(v, path) ==
    IF Segments(path) = <<>> THEN Error
    ELSE IF Follow(v, Segments(path)) = Error THEN Empty
    ELSE Follow(v, Segments(path))
HasPath(v, path) ==
    IF ~ MapLike(v) \/ Segments(path) = <<>> THEN Error
    ELSE Bool(Follow(v, Segments(path)) # Error)

(* set_path_recursive.  down[i] is what the first i segments lead to, with  *)
(* the kind a missing map is created with; up[i] is that value after the    *)
(* update.  A list is never created and never grows.                        *)
Base(b, seg) ==
    IF b.val \notin {Error, Empty} THEN b
    ELSE [b EXCEPT !.val = IF seg.bracketed THEN Error ELSE <<b.kind, <<>>>>,
                   !.ok = @ /\ ~ seg.bracketed]
Descend(b, seg) ==
    LET here == Base(b, seg).val
    IN [val |-> Member(here, seg),
        kind |-> IF MapLike(here) THEN Kind(here) ELSE "map",
        ok |-> /\ Base(b, seg).ok
               /\ MapLike(here) \/ (Kind(here) = "list" /\ Member(here, seg) # Error)]
Replace(here, seg, new) ==
    IF MapLike(here) THEN MapSet(here, seg.text, new)
    ELSE List([here[2] EXCEPT ![Unsigned(seg.text) + 1] = new])
SetSegments(v, segs, new) ==
    LET down[i \in 0..Len(segs)] ==
            IF i = 0 THEN [val |-> v, kind |-> Kind(v), ok |-> TRUE]
            ELSE Descend(down[i-1], segs[i])
        up[i \in 0..Len(segs)] ==
            IF i = Len(segs) THEN new
            ELSE Replace(Base(down[i], segs[i+1]).val, segs[i+1], up[i+1])
    IN IF down[Len(segs)].ok THEN up[0] ELSE Error
SetPath(v, path, new) ==
    IF ~ MapLike(v) \/ Segments(path) = <<>> THEN Error
    ELSE SetSegments(v, Segments(path), new)
-----------------------------------------------------------------------------
(* Texts of values.                                                          *)

Numeral[n \in Nat] ==
    IF n < 10 THEN <<(<<"0", "1", "2", "3", "4", "5", "6", "7", "8", "9">>)[n + 1]>>
    ELSE Numeral[n \div 10] \o Numeral[n % 10]
NumberText(n) == IF n < 0 THEN <<"-">> \o Numeral[-n] ELSE Numeral[n]
True == <<"true">>
False == <<"false">>
Joined(q, sep) == IF q = <<>> THEN <<>>
                  ELSE FoldLeft(LAMBDA t, u : t \o sep \o u, q[1], Tail(q))

(* arksh_value_render.  The layout of a value with other values in it is     *)
(* one symbol that stands for that text and no other.                        *)
Render(v) ==
    CASE Kind(v) = "string"  -> v[2]
      [] Kind(v) = "number"  -> NumberText(v[2])
      [] Kind(v) = "boolean" -> IF v[2] THEN True ELSE False
      [] Kind(v) = "empty"   -> <<>>
      [] OTHER               -> <<ToString(v)>>

(* value_is_truthy                                                           *)
Truthy(v) ==
    CASE Kind(v) = "boolean" -> v[2]
      [] Kind(v) = "number"  -> v[2] # 0
      [] Kind(v) = "string"  -> v[2] \notin {<<>>, False, <<"0">>}
      [] Kind(v) \in {"list", "map", "dict"} -> v[2] # <<>>
      [] Kind(v) = "matrix"  -> v[2][2] # <<>>
      [] OTHER               -> Kind(v) = "object"

(* arksh_value_get_property_value: the properties every value has, the ones  *)
(* of its kind, then the entries of a map.                                   *)
Property(v, name) ==
    CASE name = <<"type">>  -> IF Kind(v) = "map" /\ Kind(MapGet(v, TypeTag)) = "string"
                               THEN MapGet(v, TypeTag) ELSE Text(<<Kind(v)>>)
      [] name = <<"value">> -> Text(Render(v))
      [] name = <<"text">> /\ Kind(v) = "string"    -> v
      [] name = <<"number">> /\ Kind(v) = "number"  -> v
      [] name = <<"bool">> /\ Kind(v) = "boolean"   -> v
      [] name = <<"length">> /\ Kind(v) \in {"string", "list", "map", "dict"} -> Number(Len(v[2]))
      [] name = <<"count">> /\ Kind(v) \in {"list", "map", "dict"} -> Number(Len(v[2]))
      [] OTHER -> MapGet(v, name)

-----------------------------------------------------------------------------
(* Matrices: column names and rows of cells.  A cell is a number, a boolean, *)
(* a text or empty; of anything else it keeps the text (matrix_cell_set).    *)

Cell(v) == CASE Kind(v) \in {"number", "boolean", "empty"} -> v
             [] Kind(v) = "string" -> Text(Truncated(v[2], MaxName))
             [] OTHER -> Text(<<>>)

(* matrix_cell_get: what is not a number or a boolean is read as its text.   *)
CellValue(c) == IF Kind(c) = "empty" THEN Text(<<>>) ELSE c
CellText(c)  == Render(c)          \* matrix_cell_format
Cols(m) == m[2][1]
Rows(m) == m[2][2]
Column(m, name) == IF \E c \in DOMAIN Cols(m) : Cols(m)[c] = name
                   THEN Min({ c \in DOMAIN Cols(m) : Cols(m)[c] = name }) ELSE 0

(* arksh_value_set_matrix keeps at most MaxCols columns and cuts their names. *)
SetMatrix(names, rows) ==
    Matrix([c \in 1..Min({Len(names), MaxCols}) |-> Truncated(names[c], MaxName)], rows)

AddRow(m, args) ==
    IF Kind(m) # "matrix" \/ Len(args) # Len(Cols(m)) \/ Len(Rows(m)) >= MaxRows THEN Error
    ELSE Matrix(Cols(m), Append(Rows(m), [c \in DOMAIN args |-> Cell(args[c])]))
DropRow(m, n) ==
    IF Kind(m) # "matrix" \/ n \notin 0..(Len(Rows(m)) - 1) THEN Error
    ELSE SetMatrix(Cols(m), [r \in 1..(Len(Rows(m)) - 1) |->
                               Rows(m)[IF r <= n THEN r ELSE r + 1]])
RenameCol(m, old, new) ==
    IF Kind(m) # "matrix" \/ Column(m, old) = 0 THEN Error
    ELSE Matrix([Cols(m) EXCEPT ![Column(m, old)] = Truncated(new, MaxName)], Rows(m))
RowMap(m, r) == FoldLeft(LAMBDA v, c : MapSet(v, Cols(m)[c], CellValue(Rows(m)[r][c])),
                         Map(<<>>), [c \in DOMAIN Cols(m) |-> c])
Row(m, n) == IF Kind(m) # "matrix" \/ n \notin 0..(Len(Rows(m)) - 1) THEN Error
             ELSE RowMap(m, n + 1)
Col(m, name) == IF Kind(m) # "matrix" \/ Column(m, name) = 0 THEN Error
                ELSE List([r \in DOMAIN Rows(m) |-> CellValue(Rows(m)[r][Column(m, name)])])
Select(m, names) ==
    LET q == Truncated(names, MaxCols)
    IN IF Kind(m) # "matrix" \/ names = <<>> \/ \E i \in DOMAIN q : Column(m, q[i]) = 0 THEN Error
       ELSE SetMatrix(q, [r \in DOMAIN Rows(m) |-> [i \in DOMAIN q |-> Rows(m)[r][Column(m, q[i])]]])

(* matrix_cell_compare: by number when both are numbers, else by text.       *)
CellEquals(c, v) == IF Kind(c) = "number" /\ Kind(v) = "number" THEN c[2] = v[2]
                    ELSE CellText(c) = (IF Kind(v) = "string" THEN v[2] ELSE <<>>)
WhereRows(m, name, v) ==
    LET Keep(row) == CellEquals(row[Column(m, name)], v)
    IN IF Kind(m) # "matrix" \/ Column(m, name) = 0 THEN Error
       ELSE SetMatrix(Cols(m), SelectSeq(Rows(m), Keep))

ToMaps(m) == IF Kind(m) # "matrix" THEN Error
             ELSE List([r \in DOMAIN Rows(m) |-> RowMap(m, r)])

(* from_maps(): the columns are the keys of the first map; items that are    *)
(* not maps are skipped, missing keys leave an empty cell.                   *)
FromMaps(v) ==
    LET names == Truncated([i \in DOMAIN v[2][1][2] |-> v[2][1][2][i][1]], MaxCols)
        rows  == Truncated(SelectSeq(v[2], MapLike), MaxRows)
    IN CASE Kind(v) # "list"       -> Error
         [] v[2] = <<>>            -> SetMatrix(<<>>, <<>>)
         [] v[2] # <<>> /\ ~ MapLike(v[2][1]) -> Error
         [] OTHER -> SetMatrix(names, [r \in DOMAIN rows |-> [c \in DOMAIN names |->
                        IF names[c] \in Keys(rows[r][2]) THEN Cell(MapGet(rows[r], names[c])) ELSE Empty]])

(* transpose: the new columns are the old rows, row_0, row_1, ..., as many   *)
(* as a matrix can have.                                                     *)
Transpose(m) ==
    LET n == Min({Len(Rows(m)), MaxCols})
    IN IF Kind(m) # "matrix" THEN Error
       ELSE SetMatrix([i \in 1..n |-> <<"row_">> \o Numeral[i - 1]],
                      [c \in DOMAIN Cols(m) |-> [r \in 1..n |-> Rows(m)[r][c]]])

(* fill_na: a cell is filled when its text is empty, which the text of a     *)
(* number and of a boolean always is.                                        *)
NoText(c) == Kind(c) # "string" \/ c[2] = <<>>
FillNa(m, name, text) ==
    LET k == Column(m, name)
    IN IF Kind(m) # "matrix" \/ k = 0 THEN Error
       ELSE Matrix(Cols(m), [r \in DOMAIN Rows(m) |->
                IF NoText(Rows(m)[r][k]) THEN [Rows(m)[r] EXCEPT ![k] = Cell(Text(text))] ELSE Rows(m)[r]])
=============================================================================
