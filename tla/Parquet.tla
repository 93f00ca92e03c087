------------------------------ MODULE Parquet ------------------------------
(***************************************************************************)
(* The reader of the leaderboards' Parquet files                           *)
(* (internal/catalog/parquet): the footer's Thrift, the layout of a flat   *)
(* table in groups, chunks and pages, and the encodings of a page.         *)
(*                                                                         *)
(* Bytes are numbers; a value is the sequence of its bytes, and a cell is  *)
(* a set, empty for a null.  What can fail gives a set, empty when the     *)
(* reader refuses.  Snappy's data is the sequence of its elements.         *)
(***************************************************************************)
EXTENDS Integers, Sequences, FiniteSets, SequencesExt, FiniteSetsExt

CONSTANTS
  Width,    \* type -> the bytes of one of its values, 0 for a text
  WordBytes,     \* the bytes of a length
  NotText,  \* bytes no text has
  MaxDepth, \* how deep the footer's structures go, at most
  MaxItems  \* how long its lists are, at most

Tail0(b, n) == SubSeq(b, n + 1, Len(b))

\* Numbers: little-endian, and of seven bits a byte with a bit to go on.
Number(b) == FoldLeftDomain(LAMBDA n, i : n + b[i] * 256 ^ (i - 1), 0, b)
Uvarint(b) ==
  LET ends == {i \in DOMAIN b : b[i] < 128} IN
  IF ends = {} THEN {}
  ELSE {[used |-> n, value |-> FoldLeftDomain(LAMBDA v, i : v + (b[i] % 128) * 128 ^ (i - 1), 0, SubSeq(b, 1, n))] : n \in {Min(ends)}}

-----------------------------------------------------------------------------
(* thrift.go: a structure is fields by number, a list values by place.     *)
Nothing == [t |-> "none", n |-> 0, b |-> << >>, of |-> {}]
Integer(n) == [Nothing EXCEPT !.t = "int", !.n = n]
Bool(x) == [Nothing EXCEPT !.t = "bool", !.n = IF x THEN 1 ELSE 0]
Bytes(b) == [Nothing EXCEPT !.t = "bytes", !.b = b]
Struct(fields) == [Nothing EXCEPT !.t = "struct", !.of = fields]
List(items) == [Nothing EXCEPT !.t = "list", !.of = {<<i, items[i]>> : i \in DOMAIN items}]

Zigzag(b) ==
  {[n |-> IF u.value % 2 = 0 THEN u.value \div 2 ELSE -(u.value \div 2) - 1, b |-> Tail0(b, u.used)] : u \in Uvarint(b)}
\* A bug: a number of its own is not read where the step is nought.
FieldIdByStep(b, last) == {[n |-> last + b[1] \div 16, b |-> Tail(b)]}
FieldId(b, last) == IF b[1] >= 16 THEN {[n |-> last + b[1] \div 16, b |-> Tail(b)]} ELSE Zigzag(Tail(b))

RECURSIVE Value(_, _, _), Items(_, _, _, _, _), Fields(_, _, _, _)
Taken(b, n) == {[v |-> Bytes(SubSeq(b, 1, n)), b |-> Tail0(b, n)] : any \in {x \in {1} : n <= Len(b)}}
Sized(b) ==
  IF b = << >> THEN {}
  ELSE LET sizes == IF b[1] \div 16 = 15 THEN {[n |-> u.value, b |-> Tail0(b, u.used + 1)] : u \in Uvarint(Tail(b))}
                                        ELSE {[n |-> b[1] \div 16, b |-> Tail(b)]}
       IN {s \in sizes : s.n <= MaxItems}
Value(t, b, depth) ==
  CASE t \in {1, 2} -> {[v |-> Bool(t = 1), b |-> b]}
    [] t = 3 -> {[v |-> Integer(IF x.v.b[1] < 128 THEN x.v.b[1] ELSE x.v.b[1] - 256), b |-> x.b] : x \in Taken(b, 1)}
    [] t \in {4, 5, 6} -> {[v |-> Integer(z.n), b |-> z.b] : z \in Zigzag(b)}
    [] t = 7 -> Taken(b, 8)
    [] t = 8 -> UNION {Taken(Tail0(b, u.used), u.value) : u \in Uvarint(b)}
    [] t \in {9, 10} -> UNION {Items(b[1] % 16, s.n, s.b, << >>, depth) : s \in Sized(b)}
    [] t = 12 -> IF depth = MaxDepth THEN {} ELSE Fields(b, 0, {}, depth + 1)
    [] OTHER -> {}
Items(t, left, b, items, depth) ==
  LET one == IF t \in {1, 2} THEN {[v |-> Bool(x.v.b[1] = 1), b |-> x.b] : x \in Taken(b, 1)} ELSE Value(t, b, depth)
  IN IF left = 0 THEN {[v |-> List(items), b |-> b]}
     ELSE UNION {Items(t, left - 1, x.b, Append(items, x.v), depth) : x \in one}
Fields(b, last, fields, depth) ==
  CASE b = << >> -> {}
    [] b # << >> /\ b[1] = 0 -> {[v |-> Struct(fields), b |-> Tail(b)]}
    [] OTHER -> UNION {UNION {Fields(x.b, id.n, {f \in fields : f[1] # id.n} \cup {<<id.n, x.v>>}, depth) :
                                x \in Value(b[1] % 16, id.b, depth)} : id \in FieldId(b, last)}
DecodeStruct(b) == Value(12, b, 0)

-----------------------------------------------------------------------------
(* codec.go                                                                *)

\* An element is some bytes, or a copy of what was already written; a copy
\* may reach into itself.
CopyAtOnce(out, e) == out \o SubSeq(out, Len(out) - e.offset + 1, Min({Len(out), Len(out) - e.offset + e.length}))
Copy(out, e) == FoldLeft(LAMBDA o, i : Append(o, o[Len(out) - e.offset + i]), out, [i \in 1..e.length |-> i])
Element(acc, e, want) ==
  {out \in {IF e.copy THEN Copy(o, e) ELSE o \o e.bytes : o \in {x \in acc : e.copy => e.offset \in 1..Len(x)}} : Len(out) <= want}
SnappyDecode(elements, want) ==
  {out \in FoldLeft(LAMBDA acc, e : Element(acc, e, want), {<< >>}, elements) : Len(out) = want}
Decompress(codec, body, size) ==
  IF codec = "snappy" THEN SnappyDecode(body, size) ELSE {b \in {body} : Len(b) = size}

\* Runs: of one value, or of groups of eight packed bit by bit.
Bit(b, i) == (b[i \div 8 + 1] \div 2 ^ (i % 8)) % 2
PackedFromTop(b, width, k) == FoldLeft(LAMBDA n, i : n * 2 + Bit(b, k * width + i - 1), 0, [i \in 1..width |-> i])
Packed(b, width, k) == FoldLeft(LAMBDA n, i : n + Bit(b, k * width + i - 1) * 2 ^ (i - 1), 0, [i \in 1..width |-> i])
Group(s, b, h, width) ==
  {[out |-> s.out \o [k \in 1..Min({s.left, 8 * (h \div 2)}) |-> Packed(b, width, k - 1)], b |-> Tail0(b, (h \div 2) * width),
    left |-> s.left - Min({s.left, 8 * (h \div 2)})] : any \in {x \in {1} : (h \div 2) * width <= Len(b)}}
RunOf(s, b, h, width) ==
  LET bytes == (width + 7) \div 8
      n == Min({s.left, h \div 2})
  IN {[out |-> s.out \o [k \in 1..n |-> Number(SubSeq(b, 1, bytes))], b |-> Tail0(b, bytes), left |-> s.left - n] :
        any \in {x \in {1} : bytes <= Len(b)}}
Hybrid(s, width) ==
  UNION {LET b == Tail0(s.b, h.used) IN IF h.value % 2 = 0 THEN RunOf(s, b, h.value, width) ELSE Group(s, b, h.value, width) :
           h \in Uvarint(s.b)}
RleDecode(b, width, count) ==
  LET Step(acc, i) == UNION {IF s.left = 0 THEN {s} ELSE Hybrid(s, width) : s \in acc}
      all == FoldLeftDomain(Step, {[out |-> << >>, b |-> b, left |-> count]}, Append(b, 0))
  IN {s.out : s \in {x \in all : x.left = 0}}

-----------------------------------------------------------------------------
(* Pages: plain values, or the numbers of a dictionary's; a definition     *)
(* level for each slot of an optional column says which hold one.          *)
PlainStep(type, s) ==
  LET size == IF Width[type] > 0 THEN Width[type] ELSE Number(SubSeq(s.b, 1, WordBytes))
      from == IF Width[type] > 0 THEN 0 ELSE WordBytes
      v == SubSeq(s.b, from + 1, from + size)
  IN {[out |-> Append(s.out, v), b |-> Tail0(s.b, from + size)] :
        any \in {x \in {1} : from <= Len(s.b) /\ from + size <= Len(s.b) /\ (Width[type] = 0 => ToSet(v) \cap NotText = {})}}
Plain(type, b, count) ==
  {s.out : s \in FoldLeft(LAMBDA acc, i : UNION {PlainStep(type, s) : s \in acc}, {[out |-> << >>, b |-> b]}, [i \in 1..count |-> i])}

FromDictionary(raw, present, dict) ==
  IF dict = {} \/ raw = << >> THEN {}
  ELSE {[i \in DOMAIN ids |-> d[ids[i] + 1]] :
          <<d, ids>> \in {x \in dict \X RleDecode(Tail(raw), raw[1], present) : \A i \in DOMAIN x[2] : x[2][i] < Len(x[1])}}
\* A bug: the values stand in the slots as they come.
PlacedInOrder(defs, got) == [i \in DOMAIN defs |-> IF i <= Len(got) THEN {got[i]} ELSE {}]
Placed(defs, got) ==
  [i \in DOMAIN defs |-> IF defs[i] = 1 THEN {got[Cardinality({j \in 1..i : defs[j] = 1})]} ELSE {}]
Values(type, page, raw, defs, dict) ==
  LET present == Cardinality({i \in DOMAIN defs : defs[i] = 1})
      found == CASE page.encoding = "plain" -> Plain(type, raw, present)
                 [] page.encoding \in {"dictionary", "rle_dictionary"} -> FromDictionary(raw, present, dict)
                 [] OTHER -> {}
  IN {Placed(defs, got) : got \in found}

\* The levels of a page of version 1 are before its values and compressed
\* with them; those of version 2 are apart.
AllPresent(count) == {[i \in 1..count |-> 1]}
Parts1(col, page, codec) ==
  LET Part(raw) ==
        {[raw |-> Tail0(raw, WordBytes + n), levels |-> SubSeq(raw, WordBytes + 1, WordBytes + n)] :
           n \in {m \in {Number(SubSeq(raw, 1, WordBytes))} : WordBytes <= Len(raw) /\ WordBytes + m <= Len(raw)}}
  IN UNION {IF col.optional THEN Part(raw) ELSE {[raw |-> raw, levels |-> << >>]} : raw \in Decompress(codec, page.body, page.size)}
Parts2(page, codec) ==
  {[raw |-> raw, levels |-> page.levels] :
     raw \in IF page.compressed THEN Decompress(codec, page.body, page.size - Len(page.levels)) ELSE {page.body}}
DataPage(col, page, codec, dict) ==
  LET Defs(levels) == IF col.optional THEN RleDecode(levels, 1, page.count) ELSE AllPresent(page.count)
  IN UNION {UNION {Values(col.type, page, part.raw, defs, dict) : defs \in Defs(part.levels)} :
              part \in IF page.kind = "data" THEN Parts1(col, page, codec) ELSE Parts2(page, codec)}
DictionaryRead(col, page, codec) ==
  UNION {Plain(col.type, raw, page.count) :
           raw \in {b \in Decompress(codec, page.body, page.size) : page.encoding \in {"plain", "dictionary"}}}

\* One chunk: its pages until its rows are all read.
PageRead(s, col, page, codec, rows) ==
  CASE Len(s.out) < rows /\ page.kind = "dictionary" -> {[s EXCEPT !.dict = {d}] : d \in DictionaryRead(col, page, codec)}
    [] Len(s.out) < rows /\ page.kind \in {"data", "data2"} -> {[s EXCEPT !.out = @ \o v] : v \in DataPage(col, page, codec, s.dict)}
    [] OTHER -> {s}
ReadChunk(col, pages, chunk, rows) ==
  LET Step(acc, page) == UNION {PageRead(s, col, page, chunk.codec, rows) : s \in acc}
      read == FoldLeft(Step, {[out |-> << >>, dict |-> {}]}, SubSeq(pages, chunk.start, chunk.start + chunk.size - 1))
  IN IF chunk.codec \notin {"none", "snappy"} \/ chunk.values # rows THEN {}
     ELSE {s.out : s \in {x \in read : Len(x.out) = rows}}

-----------------------------------------------------------------------------
(* Open, of the footer: a flat schema, a chunk per column in each group,   *)
(* whose pages are in the file, and as many rows as the file says.         *)

\* The dictionary's page, where there is one, is before the data's.
StartOfData(md) == md.data
StartOf(md) == IF md.dict > 0 /\ md.dict < md.data THEN md.dict ELSE md.data
Chunk(md) == [codec |-> md.codec, values |-> md.values, start |-> StartOf(md), size |-> md.size]
IsFlat(meta) ==
  /\ meta.schema # << >> /\ meta.children = Len(meta.schema)
  /\ \A i \in DOMAIN meta.schema : meta.schema[i].children = 0 /\ meta.schema[i].repetition # "repeated"
IsInside(chunk, pages) == chunk.start >= 1 /\ chunk.start + chunk.size <= Len(pages) + 1
Open(meta, pages, most) ==
  LET file == [columns |-> [i \in DOMAIN meta.schema |-> LET e == meta.schema[i] IN
                              [name |-> e.name, type |-> e.type, optional |-> e.repetition = "optional"]],
               groups |-> [g \in DOMAIN meta.groups |-> [rows |-> meta.groups[g].rows,
                              chunks |-> [i \in DOMAIN meta.groups[g].chunks |-> Chunk(meta.groups[g].chunks[i])]]]]
  IN {f \in {file} :
        /\ meta.rows <= most /\ IsFlat(meta)
        /\ \A g \in DOMAIN f.groups : /\ Len(f.groups[g].chunks) = Len(f.columns)
                                      /\ \A i \in DOMAIN f.columns : IsInside(f.groups[g].chunks[i], pages)
        /\ FoldLeft(LAMBDA n, g : n + g.rows, 0, f.groups) = meta.rows}

\* Rows: of the columns asked for, or of all, the values of every group.
ColumnOf(file, i, pages) ==
  FoldLeft(LAMBDA acc, g : {c \o v : <<c, v>> \in acc \X ReadChunk(file.columns[i], pages, g.chunks[i], g.rows)}, {<< >>}, file.groups)
Rows(file, names, pages) ==
  LET wanted == {i \in DOMAIN file.columns : names = {} \/ file.columns[i].name \in names}
      known == {file.columns[i].name : i \in wanted}
      columns == [i \in wanted |-> ColumnOf(file, i, pages)]
  IN IF names \ known # {} \/ (\E i \in wanted : file.columns[i].type \notin DOMAIN Width \/ columns[i] = {}) THEN {}
     ELSE {[n \in known |-> CHOOSE c \in columns[Min({i \in wanted : file.columns[i].name = n})] : TRUE]}

-----------------------------------------------------------------------------
(* A writer of such files, to read back.                                   *)
Bits(n, width) == [i \in 1..width |-> (n \div 2 ^ (i - 1)) % 2]
PackedRun(ids, width) ==
  LET groups == (Len(ids) + 7) \div 8
      bits == FlattenSeq([i \in 1..(8 * groups) |-> Bits(IF i <= Len(ids) THEN ids[i] ELSE 0, width)])
  IN (IF ids = << >> THEN << >> ELSE <<2 * groups + 1>>) \o [j \in 1..(groups * width) |-> FoldLeftDomain(LAMBDA n, i : n + bits[8 * (j - 1) + i] * 2 ^ (i - 1), 0, [i \in 1..8 |-> i])]
RunsOf(ids, width) ==
  LET starts == {i \in DOMAIN ids : i = 1 \/ ids[i] # ids[i - 1]}
      Length(i) == Min({j \in starts \cup {Len(ids) + 1} : j > i}) - i
  IN FlattenSeq([i \in DOMAIN ids |-> IF i \in starts THEN <<2 * Length(i)>> \o [k \in 1..((width + 7) \div 8) |-> ids[i]] ELSE << >>])
Coded(ids, width, w) ==
  CASE w.runs = "runs" -> RunsOf(ids, width)
    [] w.runs = "packed" -> PackedRun(ids, width)
    [] w.runs = "both" -> IF ids = << >> THEN << >> ELSE RunsOf(<<ids[1]>>, width) \o PackedRun(Tail(ids), width)
Written(type, v) == IF Width[type] = 0 THEN <<Len(v)>> \o v ELSE v
\* As few bytes as repeat, and a copy of the rest.
Compressed(b) ==
  LET p == Min({n \in 0..Len(b) : \A i \in (n + 1)..Len(b) : n > 0 /\ b[i] = b[i - n]})
      literal == [copy |-> FALSE, bytes |-> SubSeq(b, 1, p), offset |-> 0, length |-> 0]
  IN CASE b = << >> -> << >> [] b # << >> /\ p = Len(b) -> <<literal>>
       [] OTHER -> <<literal, [copy |-> TRUE, bytes |-> << >>, offset |-> p, length |-> Len(b) - p]>>
Body(b, squeezed) == IF squeezed THEN Compressed(b) ELSE b

Present(cells) == FlattenSeq([i \in DOMAIN cells |-> IF cells[i] = {} THEN << >> ELSE <<CHOOSE v \in cells[i] : TRUE>>])
PageOf(col, cells, dict, w) ==
  LET here == Present(cells)
      levels == IF col.optional THEN Coded([i \in DOMAIN cells |-> Cardinality(cells[i])], 1, w) ELSE << >>
      width == CHOOSE n \in 0..8 : 2 ^ n >= Len(dict) /\ \A k \in 0..(n - 1) : 2 ^ k < Len(dict)
      vals == IF w.dictionary THEN <<width>> \o Coded([i \in DOMAIN here |-> (CHOOSE k \in DOMAIN dict : dict[k] = here[i]) - 1], width, w)
              ELSE FlattenSeq([i \in DOMAIN here |-> Written(col.type, here[i])])
      before == IF col.optional THEN <<Len(levels)>> \o levels ELSE << >>
      raw == IF w.version = 1 THEN before \o vals ELSE vals
  IN [kind |-> IF w.version = 1 THEN "data" ELSE "data2", encoding |-> IF w.dictionary THEN "rle_dictionary" ELSE "plain",
      count |-> Len(cells), levels |-> IF w.version = 1 THEN << >> ELSE levels, compressed |-> w.flagged,
      size |-> Len(raw) + IF w.version = 1 THEN 0 ELSE Len(levels), body |-> Body(raw, w.codec = "snappy" /\ (w.version = 1 \/ w.flagged))]
DictionaryPage(col, dict, w) ==
  LET raw == FlattenSeq([i \in DOMAIN dict |-> Written(col.type, dict[i])])
  IN [kind |-> "dictionary", encoding |-> "plain", count |-> Len(dict), levels |-> << >>, compressed |-> TRUE,
      size |-> Len(raw), body |-> Body(raw, w.codec = "snappy")]
ChunkPages(col, cells, w) ==
  LET dict == FoldLeft(LAMBDA d, v : IF v \in ToSet(d) THEN d ELSE Append(d, v), << >>, Present(cells))
      pages == [k \in 1..((Len(cells) + w.perPage - 1) \div w.perPage) |->
                  PageOf(col, SubSeq(cells, (k - 1) * w.perPage + 1, Min({Len(cells), k * w.perPage})), dict, w)]
  IN (IF w.dictionary THEN <<DictionaryPage(col, dict, w)>> ELSE << >>) \o pages
\* The chunks of a group after those of the one before; a number of pages
\* stands for where they are, and the first is at 1.
FileOf(cols, table, w) ==
  LET n == Len(table[1])
      sizes == [g \in 1..((n + w.perGroup - 1) \div w.perGroup) |-> Min({w.perGroup, n - (g - 1) * w.perGroup})]
      Cells(g, c) == SubSeq(table[c], (g - 1) * w.perGroup + 1, (g - 1) * w.perGroup + sizes[g])
      Step(acc, gc) ==
        LET ps == ChunkPages(cols[gc[2]], Cells(gc[1], gc[2]), w)
            at == Len(acc.pages) + 1
        IN [pages |-> acc.pages \o ps,
            chunks |-> Append(acc.chunks, [codec |-> w.codec, values |-> sizes[gc[1]], dict |-> IF w.dictionary THEN at ELSE 0,
                                           data |-> IF w.dictionary THEN at + 1 ELSE at, size |-> Len(ps)])]
      all == FoldLeft(Step, [pages |-> << >>, chunks |-> << >>],
                      FlattenSeq([g \in DOMAIN sizes |-> [c \in DOMAIN cols |-> <<g, c>>]]))
  IN [pages |-> all.pages,
      meta |-> [rows |-> n, children |-> Len(cols),
                schema |-> [c \in DOMAIN cols |-> [name |-> cols[c].name, type |-> cols[c].type, children |-> 0,
                              repetition |-> IF cols[c].optional THEN "optional" ELSE "required"]],
                groups |-> [g \in DOMAIN sizes |-> [rows |-> sizes[g],
                              chunks |-> SubSeq(all.chunks, (g - 1) * Len(cols) + 1, g * Len(cols))]]]]
Read(meta, pages, names) == UNION {Rows(f, names, pages) : f \in Open(meta, pages, 100)}

\* What was written is what is read, in whichever way it was written, of all
\* columns or of those asked for; and a file with a page cut short, with one
\* lost or of a column that it does not have is refused.
TableReadsBack(i) ==
  \A file \in {FileOf(i.columns, i.table, i.writer)} :
    LET names == [c \in DOMAIN i.columns |-> i.columns[c].name]
        Of(S) == {[n \in S |-> i.table[CHOOSE c \in DOMAIN names : names[c] = n]]}
        ps == file.pages
        Case(pages, asked, found) == [pages |-> pages, asked |-> asked, found |-> found]
        cases == {Case(ps, {}, Of(ToSet(names))), Case(ps, {"none"}, {})} \cup {Case(ps, {n}, Of({n})) : n \in ToSet(names)}
                 \cup {Case([ps EXCEPT ![k].body = Front(@)], {}, {}) : k \in {x \in DOMAIN ps : ps[x].body # << >>}}
                 \cup {Case([ps EXCEPT ![k].kind = "index"], {}, {}) : k \in {1, Len(ps)}}
    IN \A c \in cases : Read(file.meta, c.pages, c.asked) = c.found

(* Thrift, written with a step to the next field's number where it can be  *)
(* or with the number itself, the fields in any order.                     *)
Varint(n) == IF n < 128 THEN <<n>> ELSE <<128 + (n % 128), n \div 128>>
Zagged(n) == Varint(IF n >= 0 THEN 2 * n ELSE -2 * n - 1)
TypeOf(v) == CASE v.t = "bool" -> IF v.n = 1 THEN 1 ELSE 2
               [] v.t = "int" -> 6 [] v.t = "bytes" -> 8 [] v.t = "list" -> 9 [] v.t = "struct" -> 12
RECURSIVE Encoded(_, _)
ListItem(v) == IF v.t = "bool" THEN <<IF v.n = 1 THEN 1 ELSE 2>> ELSE Encoded(v, FALSE)
Encoded(v, steps) ==
  LET n == Cardinality(v.of)
      At(i) == (CHOOSE f \in v.of : f[1] = i)[2]
      ascending == SetToSortSeq({f[1] : f \in v.of}, <)
      ids == IF steps THEN ascending ELSE Reverse(ascending)
      Step(k) == ids[k] - IF k = 1 THEN 0 ELSE ids[k - 1]
      Header(k) == IF steps /\ Step(k) \in 1..15 THEN <<16 * Step(k) + TypeOf(At(ids[k]))>> ELSE <<TypeOf(At(ids[k]))>> \o Zagged(ids[k])
  IN CASE v.t = "bool" -> << >>
       [] v.t = "int" -> Zagged(v.n)
       [] v.t = "bytes" -> Varint(Len(v.b)) \o v.b
       [] v.t = "list" -> LET t == IF n = 0 THEN 6 ELSE TypeOf(At(1)) IN
                          (IF n < 15 THEN <<16 * n + t>> ELSE <<240 + t>> \o Varint(n)) \o FlattenSeq([i \in 1..n |-> ListItem(At(i))])
       [] v.t = "struct" -> FlattenSeq([k \in 1..n |-> Header(k) \o Encoded(At(ids[k]), steps)]) \o <<0>>

\* A structure reads back as it was written, its end is found, and nothing
\* that ends before it is read.
ThriftReadsBack(i) ==
  \A b \in {Encoded(i.value, i.steps) \o <<7, 7>>} :
    \A k \in 0..Len(b) :
      DecodeStruct(SubSeq(b, 1, k)) = {[v |-> i.value, b |-> SubSeq(b, Len(b) - 1, k)] : any \in {x \in {1} : k >= Len(b) - 2}}
=============================================================================
