------------------------------- MODULE Tables ---------------------------------
(***************************************************************************)
(* Delimited tables: the parser of a whole text (delimited.rs), the        *)
(* parser of one record after another (streaming.rs), the writer of a join *)
(* and the join with its verification (table_join.rs).  A text is a        *)
(* sequence of characters, of which five mean something.                   *)
(***************************************************************************)
EXTENDS Naturals, Sequences, FiniteSets, SequencesExt

CONSTANTS
  Delimiter, Quote, LF, CR, BOM,
  Bad,            \* every refusal
  Yes, No,        \* what a join writes into its first column
  MaxColumns, MaxRecord, MaxRows, MaxOutput   \* of a record: 1024, 1 MiB; of a table: 100,000 rows, 16 MiB

TablesConstants == Cardinality({Delimiter, Quote, LF, CR, BOM}) = 5 /\ {MaxColumns, MaxRecord, MaxRows, MaxOutput} \subseteq Nat

Stops == {Delimiter, LF, CR}
Strip(t) == IF t # << >> /\ t[1] = BOM THEN Tail(t) ELSE t

-----------------------------------------------------------------------------
(* parse_ecsv, cell by cell: the cell at i and what follows it.            *)
RECURSIVE Quoted(_, _, _)
Quoted(t, i, cell) ==
  CASE i > Len(t) -> Bad
    [] t[i] # Quote -> Quoted(t, i + 1, Append(cell, t[i]))
    [] i < Len(t) /\ t[i + 1] = Quote -> Quoted(t, i + 2, Append(cell, Quote))
    [] OTHER -> IF i = Len(t) \/ t[i + 1] \in Stops THEN [cell |-> cell, next |-> i + 1] ELSE Bad
Unquoted(t, i) ==
  LET e == CHOOSE j \in i..(Len(t) + 1) : (j > Len(t) \/ t[j] \in Stops) /\ \A n \in i..(j - 1) : t[n] \notin Stops
      cell == SubSeq(t, i, e - 1)
  IN IF Contains(cell, Quote) THEN Bad ELSE [cell |-> cell, next |-> e]
Cell(t, i) == IF t[i] = Quote THEN Quoted(t, i + 1, << >>) ELSE Unquoted(t, i)

(* The rest of the text, of which the row has been read so far.  A text    *)
(* that ends in a delimiter has one more cell.  Mutant: it has not.        *)
LastCellKept(row) == <<row>>
LastCell(row) == IF Len(row) >= MaxColumns THEN Bad ELSE <<Append(row, << >>)>>
Before(row, rows) == IF rows = Bad THEN Bad ELSE <<row>> \o rows
RECURSIVE Rows(_, _, _)
Rows(t, i, sofar) ==
  IF i > Len(t) THEN << >>
  ELSE LET c == Cell(t, i)
           row == Append(sofar, c.cell)
           n == c.next
       IN CASE c = Bad -> Bad
            [] c # Bad /\ Len(row) > MaxColumns -> Bad
            [] OTHER ->
                 CASE n > Len(t) -> <<row>>
                   [] n <= Len(t) /\ t[n] = Delimiter -> IF n = Len(t) THEN LastCell(row) ELSE Rows(t, n + 1, row)
                   [] n <= Len(t) /\ t[n] = LF -> Before(row, Rows(t, n + 1, << >>))
                   [] n <= Len(t) /\ t[n] = CR ->
                        IF n < Len(t) /\ t[n + 1] = LF THEN Before(row, Rows(t, n + 2, << >>)) ELSE Bad
Parse(t) == LET rows == Rows(t, 1, << >>) IN IF rows # Bad /\ Len(rows) > MaxRows + 1 THEN Bad ELSE rows

(* A table: a header of different names, and rows as wide as it.           *)
Headed(rows) ==
  /\ rows # << >> /\ \A i \in DOMAIN rows[1] : rows[1][i] # << >>
  /\ IsInjective(rows[1]) /\ \A r \in DOMAIN rows : Len(rows[r]) = Len(rows[1])
TableOf(t) == LET rows == Parse(Strip(t)) IN
  IF rows # Bad /\ Headed(rows) THEN [headers |-> rows[1], rows |-> Tail(rows), bytes |-> t] ELSE Bad

-----------------------------------------------------------------------------
(* record, a character at a time: state 0 to 3 as in the code, 4 after CR. *)
Begun == [state |-> 0, cell |-> << >>, row |-> << >>, size |-> 0]
Start == [records |-> << >>, now |-> Begun, bad |-> FALSE]
Failed(s) == [s EXCEPT !.bad = TRUE]
To(s, state) == [s EXCEPT !.now.state = state]
Push(s, b) == [s EXCEPT !.now.cell = Append(@, b)]
Field(s) == IF Len(s.now.row) >= MaxColumns THEN Failed(s)
            ELSE [s EXCEPT !.now.row = Append(@, s.now.cell), !.now.cell = << >>]
EndRecord(s) == LET f == Field(s) IN [f EXCEPT !.records = Append(@, f.now.row), !.now = Begun]

AfterQuote(s, b) == To(Push(s, b), 2)
Feed(s, b) ==
  CASE s.now.state = 4 -> IF b = LF THEN EndRecord(s) ELSE Failed(s)
    [] s.now.state = 2 -> IF b = Quote THEN To(s, 3) ELSE Push(s, b)
    [] s.now.state = 3 /\ b = Quote -> AfterQuote(s, b)
    [] s.now.state \notin {2, 4} /\ b = Delimiter -> To(Field(s), 0)
    [] s.now.state \notin {2, 4} /\ b = LF -> EndRecord(s)
    [] s.now.state \notin {2, 4} /\ b = CR -> To(s, 4)
    [] s.now.state = 3 /\ b \notin Stops \union {Quote} -> Failed(s)
    [] s.now.state \in {0, 1} /\ b = Quote -> IF s.now.state = 0 THEN To(s, 2) ELSE Failed(s)
    [] OTHER -> To(Push(s, b), 1)
Byte(s, b) ==
  LET counted == [s EXCEPT !.now.size = @ + 1]
  IN IF s.bad \/ counted.now.size > MaxRecord THEN Failed(s) ELSE Feed(counted, b)
AtEnd(s) == CASE s.bad \/ s.now.state \in {2, 4} -> Failed(s)
              [] s.now.size = 0 -> s
              [] OTHER -> EndRecord(s)
Records(t) == LET s == AtEnd(FoldLeft(Byte, Start, t)) IN IF s.bad THEN Bad ELSE s.records
(* Scan::open reads no column of a table without a row of data.            *)
Scanned(t) == LET records == Records(Strip(t)) IN
  IF records # Bad /\ Headed(records) /\ Len(records) > 1 THEN records ELSE Bad

-----------------------------------------------------------------------------
(* write_row.  Mutant: a CR in a cell does not need quotes.                *)
NeedsNoCR(cell) == \E i \in DOMAIN cell : cell[i] \in {Quote, LF, Delimiter}
Needs(cell) == \E i \in DOMAIN cell : cell[i] \in {Quote, LF, CR, Delimiter}
Doubled(cell) == FlattenSeq([i \in DOMAIN cell |-> IF cell[i] = Quote THEN <<Quote, Quote>> ELSE <<cell[i]>>])
Encoded(cell) == IF Needs(cell) THEN <<Quote>> \o Doubled(cell) \o <<Quote>> ELSE cell
WriteRow(cells) == FlattenSeq([i \in DOMAIN cells |-> IF i = 1 THEN Encoded(cells[i]) ELSE <<Delimiter>> \o Encoded(cells[i])]) \o <<LF>>
Written(rows) == FlattenSeq([i \in DOMAIN rows |-> WriteRow(rows[i])])

(* join.  rules: the two key columns, the kind, the prefixes.              *)
Column(table, key) == {i \in DOMAIN table.headers : table.headers[i] = key}
Key(table, key, row) == row[CHOOSE i \in Column(table, key) : TRUE]
KeysOf(table, key) == [r \in DOMAIN table.rows |-> Key(table, key, table.rows[r])]
(* index: a key may be there once.                                         *)
Indexed(table, key) == (\A r \in DOMAIN table.rows : KeysOf(table, key)[r] # << >>) /\ IsInjective(KeysOf(table, key))
RowOf(table, key, k) == {r \in DOMAIN table.rows : KeysOf(table, key)[r] = k}
HeadersOf(left, right, rules) == << <<No, Yes>> >> \o [i \in DOMAIN left.headers |-> rules.left_prefix \o left.headers[i]]
                                   \o [i \in DOMAIN right.headers |-> rules.right_prefix \o right.headers[i]]
JoinRow(left, right, rules, cells) ==
  LET found == RowOf(right, rules.right_key, Key(left, rules.left_key, cells))
  IN IF found = {} THEN << <<No>> >> \o cells \o [i \in DOMAIN right.headers |-> << >>]
     ELSE << <<Yes>> >> \o cells \o right.rows[CHOOSE r \in found : \A q \in found : q <= r]
Joined(left, right, rules) ==
  LET kept == SelectSeq(left.rows, LAMBDA cells : rules.kind = "left"
                \/ RowOf(right, rules.right_key, Key(left, rules.left_key, cells)) # {})
  IN <<HeadersOf(left, right, rules)>> \o [i \in DOMAIN kept |-> JoinRow(left, right, rules, kept[i])]
Validate(rules) == rules.left_prefix # << >> /\ rules.right_prefix # << >> /\ rules.left_key # << >> /\ rules.right_key # << >>
Joins(left, right, rules) ==
  /\ Validate(rules) /\ Column(left, rules.left_key) # {} /\ Column(right, rules.right_key) # {}
  /\ Indexed(left, rules.left_key) /\ Indexed(right, rules.right_key)
  /\ LET h == HeadersOf(left, right, rules) IN IsInjective(h) /\ Len(h) <= MaxColumns
Join(left, right, rules) ==
  IF Joins(left, right, rules) /\ Len(Joined(left, right, rules)) <= MaxRows + 1
     /\ Len(Written(Joined(left, right, rules))) <= MaxOutput
  THEN Written(Joined(left, right, rules)) ELSE Bad

-----------------------------------------------------------------------------
(* What a run keeps of a join: its output with the rules and the digests,  *)
(* and its inputs with the role each was read in.                          *)
Output(name, left, right, rules) ==
  [name |-> name, rules |-> rules, left |-> left, right |-> right, described |-> Join(TableOf(left), TableOf(right), rules),
   file |-> Join(TableOf(left), TableOf(right), rules)]
Input(bytes, access) == [sha |-> bytes, file |-> bytes, access |-> access]
Access(role, name) == [role |-> role, output |-> name]
Kept(name, left, right, rules) ==
  [status |-> "PASS", outputs |-> {Output(name, left, right, rules)},
   inputs |-> IF left = right THEN {Input(left, {Access("left", name), Access("right", name)})}
              ELSE {Input(left, {Access("left", name)}), Input(right, {Access("right", name)})}]

(* verify: every output is made again from the inputs that were kept, and  *)
(* in a run that passed every input's access is of an output that is there.*)
Loaded(run, role, name) == {i \in run.inputs : Access(role, name) \in i.access}
SameInput(i, sha) == i.file = i.sha /\ i.sha = sha
Rebuilt(run, o) ==
  LET l == Loaded(run, "left", o.name)
      r == Loaded(run, "right", o.name)
  IN /\ Cardinality(l) = 1 /\ Cardinality(r) = 1 /\ (\A i \in l : SameInput(i, o.left)) /\ (\A i \in r : SameInput(i, o.right))
     /\ \A i \in l, j \in r : /\ TableOf(i.file) # Bad /\ TableOf(j.file) # Bad
                              /\ LET again == Join(TableOf(i.file), TableOf(j.file), o.rules)
                                 IN again # Bad /\ o.described = again /\ o.file = again
(* Mutant: an input may be of an output that is not there.                 *)
NotCompleted(run) == TRUE
Completed(run) == run.status = "PASS" => \A i \in run.inputs : \A a \in i.access : \E o \in run.outputs : o.name = a.output
Verify(run) == (\A o \in run.outputs : Rebuilt(run, o)) /\ Completed(run)

-----------------------------------------------------------------------------
(* Both parsers read the same rows from a text, or both refuse it, but for *)
(* the number of rows that only a table has a limit of; and so do the      *)
(* table and the scan of it.                                               *)
ParsersAgree(t) ==
  LET records == Records(t)
      table == TableOf(t)
      many == records # Bad /\ Len(records) > MaxRows + 1
  IN /\ Parse(t) = IF many THEN Bad ELSE records
     /\ many \/ Scanned(t) = IF table # Bad /\ table.rows # << >> THEN <<table.headers>> \o table.rows ELSE Bad

(* A join that is written reads back as the table of exactly the left rows *)
(* that belong to it, in their order, each with the one right row of its   *)
(* key or marked as without one; and it is refused when a key is missing   *)
(* or not unique on either side.                                           *)
JoinIsExact(left, right, rules) ==
  LET l == TableOf(left)
      r == TableOf(right)
      out == TableOf(Join(l, r, rules))
      Of(table, key) == {Key(table, key, table.rows[n]) : n \in DOMAIN table.rows}
      Unique(table, key) == << >> \notin Of(table, key) /\ Cardinality(Of(table, key)) = Len(table.rows)
      both == Of(l, rules.left_key) \intersect Of(r, rules.right_key)
      w == Len(l.headers)
  IN IF Join(l, r, rules) = Bad
     THEN ~Unique(l, rules.left_key) \/ ~Unique(r, rules.right_key) \/ ~IsInjective(HeadersOf(l, r, rules))
     ELSE /\ Unique(l, rules.left_key) /\ Unique(r, rules.right_key) /\ out # Bad
          /\ [n \in DOMAIN out.rows |-> SubSeq(out.rows[n], 2, w + 1)] =
               SelectSeq(l.rows, LAMBDA cells : rules.kind = "left" \/ Key(l, rules.left_key, cells) \in both)
          /\ \A n \in DOMAIN out.rows :
               LET row == out.rows[n]  mine == SubSeq(row, 2, w + 1)  theirs == SubSeq(row, w + 2, Len(row)) IN
               IF Key(l, rules.left_key, mine) \in both
                 THEN row[1] = <<Yes>> /\ \E m \in DOMAIN r.rows : r.rows[m] = theirs /\ Key(r, rules.right_key, theirs) = Key(l, rules.left_key, mine)
                 ELSE row[1] = <<No>> /\ \A m \in DOMAIN theirs : theirs[m] = << >>

(* What was kept of a join verifies, and not with any one of its parts     *)
(* lost, exchanged or changed; nor as a join by other rules that would     *)
(* have given something else.                                              *)
JoinEvidenceIsJoin(name, left, right, rules, other) ==
  LET run == Kept(name, left, right, rules)
      o == Output(name, left, right, rules)
      With(outputs, inputs) == [run EXCEPT !.outputs = outputs, !.inputs = inputs]
  IN Join(TableOf(left), TableOf(right), rules) # Bad =>
     /\ Verify(run) /\ Verify([With({}, {}) EXCEPT !.status = "FAIL"])
     /\ ~Verify(With({}, run.inputs))
     /\ \A i \in run.inputs : ~Verify(With(run.outputs, run.inputs \ {i}))
     /\ \A i \in run.inputs : \A b \in {left, right, << >>} \ {i.file} :
          ~Verify(With(run.outputs, (run.inputs \ {i}) \union {[i EXCEPT !.file = b]}))
     /\ \A b \in {left, right} \ {o.file} : ~Verify(With({[o EXCEPT !.file = b]}, run.inputs))
     /\ LET swapped == [o EXCEPT !.rules = other] IN
        Join(TableOf(left), TableOf(right), other) # o.described => ~Verify(With({swapped}, run.inputs))
     /\ LET turned == {[i EXCEPT !.access = {Access(IF a.role = "left" THEN "right" ELSE "left", a.output) : a \in @}] : i \in run.inputs} IN
        left # right => ~Verify(With(run.outputs, turned))
=============================================================================
