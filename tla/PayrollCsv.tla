------------------------------ MODULE PayrollCsv ------------------------------
(***************************************************************************)
(* Reading a payroll file: the readers of CSV text (lib/payroll/csv.ts and *)
(* the Bulk Pay page, which brings its own) and the checks of a row.  A    *)
(* text is a sequence of characters, of which only those the grammar names *)
(* are told apart; a cell of a payroll row is told apart by what the       *)
(* checks make of it.                                                      *)
(***************************************************************************)
EXTENDS Integers, Sequences, FiniteSets, SequencesExt

CONSTANTS
  MaxChars,    \* bound: characters of a text
  RowChoices,  \* the payroll rows a file is made of
  MaxFileRows, \* bound: rows of a file
  MaxRows,     \* MAX_ROWS, 100 in the code
  Headers      \* the headers a file is given

ASSUME CsvAssumption == MaxChars \in Nat /\ MaxFileRows \in Nat /\ MaxRows \in Nat

VARIABLES
  text,   \* the characters typed so far
  header, \* the columns of a payroll file
  sheet,  \* and its rows so far
  refuses \* rejectDuplicateRecipients

csvVars == <<text, header, sheet, refuses>>

Characters == {"quote", "comma", "lf", "cr", "blank", "x"}
CsvInit == text \in {<<>>, <<"bom">>} /\ header \in Headers /\ sheet = <<>> /\ refuses \in BOOLEAN

------------------------------------------------------------------------------
\* One character more, `next` being the one after it.  `skip` passes over the
\* second half of an escaped quote and of CRLF.
Reading0 == [rows |-> <<>>, row |-> <<>>, field |-> <<>>,
             quoted |-> FALSE, saw |-> FALSE, skip |-> FALSE]

Adds(r, c) == [r EXCEPT !.field = Append(@, c), !.saw = TRUE]
EndField(r) == [r EXCEPT !.row = Append(@, r.field), !.field = <<>>, !.saw = FALSE]
EndRow(r) ==
  LET row == IF r.saw \/ r.field # <<>> \/ r.row # <<>> THEN Append(r.row, r.field) ELSE r.row
  IN  [r EXCEPT !.rows = IF row = <<>> THEN @ ELSE Append(@, row),
                !.row = <<>>, !.field = <<>>, !.saw = FALSE]

\* Inside quotes: a doubled quote is a quote, any other ends them.
\* Mutant: the doubled one ends them too.
AnyQuoteEnds(r, c, next) ==
  IF c = "quote" THEN [r EXCEPT !.quoted = FALSE, !.skip = next = "quote",
                                !.field = IF next = "quote" THEN Append(@, c) ELSE @]
  ELSE [r EXCEPT !.field = Append(@, c)]
InQuotes(r, c, next) ==
  IF c # "quote" THEN [r EXCEPT !.field = Append(@, c)]
  ELSE IF next = "quote" THEN [r EXCEPT !.field = Append(@, c), !.skip = TRUE]
  ELSE [r EXCEPT !.quoted = FALSE]

Outside(r, c, next) ==
  CASE c = "quote" -> [r EXCEPT !.quoted = TRUE, !.saw = TRUE]
    [] c = "comma" -> EndField(r)
    [] c = "lf"    -> EndRow(r)
    [] c = "cr"    -> [EndRow(r) EXCEPT !.skip = next = "lf"]
    [] OTHER       -> Adds(r, c)

After(s, i) == IF i < Len(s) THEN s[i + 1] ELSE "end"
IsBlank(row) == \A f \in 1..Len(row) : \A i \in 1..Len(row[f]) : row[f][i] \in {"blank", "lf", "cr", "bom"}
NotBlank(row) == ~IsBlank(row)

\* parseCsvText: wholly blank rows are dropped.
ParseCsvText(s) ==
  LET source == IF s # <<>> /\ s[1] = "bom" THEN Tail(s) ELSE s
      Step(r, i) == IF r.skip THEN [r EXCEPT !.skip = FALSE]
                    ELSE IF r.quoted THEN InQuotes(r, source[i], After(source, i))
                    ELSE Outside(r, source[i], After(source, i))
  IN  SelectSeq(EndRow(FoldLeftDomain(Step, Reading0, source)).rows, NotBlank)

\* parseCsv of the Bulk Pay page: no byte order mark, and what is left of a
\* row is told by its text alone.
ParseCsv(s) ==
  LET Ends(r) == IF r.field # <<>> \/ r.row # <<>>
                   THEN [r EXCEPT !.rows = Append(@, Append(r.row, r.field)),
                                  !.row = <<>>, !.field = <<>>]
                   ELSE r
      Step(r, i) ==
        LET c == s[i] IN
        IF r.skip THEN [r EXCEPT !.skip = FALSE]
        ELSE IF r.quoted THEN InQuotes(r, c, After(s, i))
        ELSE CASE c = "quote"        -> [r EXCEPT !.quoted = TRUE]
               [] c = "comma"        -> [r EXCEPT !.row = Append(@, r.field), !.field = <<>>]
               [] c \in {"lf", "cr"} -> [Ends(r) EXCEPT !.skip = c = "cr" /\ After(s, i) = "lf"]
               [] OTHER              -> [r EXCEPT !.field = Append(@, c)]
  IN  SelectSeq(Ends(FoldLeftDomain(Step, Reading0, s)).rows, NotBlank)

------------------------------------------------------------------------------
(* The payroll file.  Money, hours and dates are the texts of their cells.  *)

\* parseMoneyField: what is wrong with a text, and the base units it says.
MoneyIssue(cell) ==
  CASE cell = ""            -> {"INVALID_AMOUNT"}
    [] cell = "1e3"         -> {"AMBIGUOUS_NUMBER"}
    [] cell = "(4)"         -> {"AMOUNT_NOT_POSITIVE"}
    [] cell = "four"        -> {"INVALID_AMOUNT"}
    [] cell = "1.00000001"  -> {"AMOUNT_PRECISION"}
    [] cell \in {"0", "-2"} -> {"AMOUNT_NOT_POSITIVE"}
    [] OTHER                -> {}
MoneyCells ==
  {"", "1e3", "(4)", "four", "1.00000001", "0", "-2", "1", "$1", "2", "2 USDC", "4"}
Units(cell) == CASE cell \in {"1", "$1"} -> 1 [] cell \in {"2", "2 USDC"} -> 2 [] cell = "4" -> 4

HoursIssue(cell) ==
  CASE cell = ""             -> {"INVALID_HOURS"}
    [] cell \in {"1.5", "1,5"} -> {"FRACTIONAL_HOURS"}
    [] cell \in {"-1", "two"} -> {"INVALID_HOURS"}
    [] cell = "0"            -> {"INVALID_HOURS"}
    [] OTHER                 -> {}
Hours(cell) == CASE cell = "0" -> 0 [] cell = "1" -> 1 [] cell = "2" -> 2

\* parseDateField: a day, written in full, that the calendar has.
DateIssue(cell) ==
  CASE cell = ""                             -> {"PERIOD_REQUIRED"}
    [] cell \in {"1/9/2026", "2026-02-30"}    -> {"INVALID_PERIOD"}
    [] OTHER                                 -> {}
Day(cell) == CASE cell = "2026-09-01" -> 1 [] cell = "2026-09-02" -> 2

PeriodIssues(r) ==
  LET issues == DateIssue(r.period_start) \union DateIssue(r.period_end)
  IN  IF issues # {} \/ Day(r.period_end) > Day(r.period_start) THEN issues ELSE {"INVALID_PERIOD"}

\* amount = hours x rate, where all three can be read; hours that are read and
\* refused for being zero are still compared.
\* Mutant: up to the amount.
AtLeastJustified(r) ==
  IF MoneyIssue(r.amount) \union MoneyIssue(r.rate) \union HoursIssue(r.hours) # {}
     \/ Hours(r.hours) * Units(r.rate) >= Units(r.amount) THEN {} ELSE {"HOURS_RATE_MISMATCH"}
JustifiedIssues(r) ==
  IF MoneyIssue(r.amount) \union MoneyIssue(r.rate) # {} \/ (HoursIssue(r.hours) # {} /\ r.hours # "0")
     \/ Hours(r.hours) * Units(r.rate) = Units(r.amount) THEN {} ELSE {"HOURS_RATE_MISMATCH"}

\* The cells of money are among those told apart.
ASSUME RowChoicesAssumption == \A r \in RowChoices : {r.amount, r.rate} \subseteq MoneyCells

IsAddress(cell) == cell \notin {"", "GABC"}

\* A recipient is known from the first row that names it, also when that row
\* is refused for something else.
RecipientIssues(rows, n, rejectDuplicates) ==
  IF ~IsAddress(rows[n].recipient) THEN {"INVALID_ADDRESS"}
  ELSE IF rejectDuplicates /\ \E k \in 1..(n - 1) : rows[k].recipient = rows[n].recipient
    THEN {"DUPLICATE_RECIPIENT"}
  ELSE {}
AssetIssues(r, settles) == IF r.asset = settles THEN {} ELSE {"UNSUPPORTED_ASSET"}

RowIssues(rows, n, rejectDuplicates, settles) ==
  LET r == rows[n] IN
  RecipientIssues(rows, n, rejectDuplicates) \union AssetIssues(r, settles)
    \union MoneyIssue(r.amount) \union MoneyIssue(r.rate) \union HoursIssue(r.hours)
    \union JustifiedIssues(r) \union PeriodIssues(r)

\* One payment per row that is right; the line is the row's place below the header.
Line(n) == n + 1
Payment(r) ==
  [recipient |-> r.recipient, asset |-> r.asset, amount |-> Units(r.amount),
   rate |-> Units(r.rate), hours |-> Hours(r.hours),
   from |-> Day(r.period_start), to |-> Day(r.period_end)]

\* The header has every required column, and no named one twice; without one
\* of them no row is read.
REQUIRED_COLUMNS ==
  {"recipient", "amount", "asset", "hours", "rate", "period_start", "period_end"}
Missing(columns) == {"MISSING_COLUMN" : c \in REQUIRED_COLUMNS \ Range(columns)}
Doubled(columns) ==
  {"DUPLICATE_COLUMN" : i \in {i \in DOMAIN columns :
     columns[i] # "" /\ \E j \in 1..(i - 1) : columns[j] = columns[i]}}

\* parsePayrollCsv.
ParsePayrollCsv(columns, rows, rejectDuplicates, settles) ==
  LET found(n) == RowIssues(rows, n, rejectDuplicates, settles)
      good == {n \in 1..Len(rows) : found(n) = {}}
      kth(i) == CHOOSE n \in good : Cardinality({m \in good : m < n}) = i - 1
      ofHeader == {<<1, i>> : i \in Missing(columns) \union Doubled(columns)}
      refused(issues) == [rows |-> <<>>, issues |-> ofHeader \union issues]
  IN  IF columns = <<>> THEN [rows |-> <<>>, issues |-> {<<0, "FILE_EMPTY">>}]
      ELSE IF Missing(columns) # {} THEN refused({})
      ELSE IF rows = <<>> THEN refused({<<1, "NO_ROWS">>})
      ELSE IF Len(rows) > MaxRows THEN refused({<<0, "TOO_MANY_ROWS">>})
      ELSE [rows |-> [i \in 1..Cardinality(good) |-> Payment(rows[kth(i)])],
            issues |-> ofHeader \union UNION {{<<Line(n), i>> : i \in found(n)} : n \in 1..Len(rows)}]

\* summarizeParse and the report of validateCsv.
Total(rows) == FoldLeft(LAMBDA sum, r : sum + r.amount, 0, rows)
ValidateCsv(columns, rows, rejectDuplicates, settles) ==
  LET parsed == ParsePayrollCsv(columns, rows, rejectDuplicates, settles)
  IN  [valid |-> parsed.issues = {} /\ parsed.rows # <<>>,
       errors |-> parsed.issues, rows |-> parsed.rows, total |-> Total(parsed.rows)]

------------------------------------------------------------------------------
Type(c) ==
  /\ sheet = <<>> /\ Len(text) < MaxChars
  /\ text' = Append(text, c)
  /\ UNCHANGED <<header, sheet, refuses>>

AddRow(r) ==
  /\ text = <<>> /\ Len(sheet) < MaxFileRows
  /\ sheet' = Append(sheet, r)
  /\ UNCHANGED <<text, header, refuses>>

CsvNext == (\E c \in Characters : Type(c)) \/ (\E r \in RowChoices : AddRow(r))

CsvTypeOK ==
  /\ text \in Seq(Characters \union {"bom"}) /\ Len(text) <= MaxChars + 1
  /\ header \in Headers /\ sheet \in Seq(RowChoices)
  /\ refuses \in BOOLEAN

------------------------------------------------------------------------------
\* What a reader took from a text reads the same again when every field is
\* written in quotes, as RFC 4180 has it: nothing of a payroll is lost between
\* an import, an export and the next import.  And the Bulk Pay page, with a
\* reader of its own, takes the same payroll from a text as the server does.
Quoted(field) ==
  <<"quote">> \o FoldLeft(LAMBDA s, c : s \o (IF c = "quote" THEN <<c, c>> ELSE <<c>>), <<>>, field)
    \o <<"quote">>
Written(row) ==
  FoldLeftDomain(LAMBDA s, i : s \o (IF i = 1 THEN <<>> ELSE <<"comma">>) \o Quoted(row[i]), <<>>, row)
Export(table) == FoldLeft(LAMBDA s, row : s \o Written(row) \o <<"cr", "lf">>, <<>>, table)
ReadsBack ==
  /\ ParseCsvText(Export(ParseCsvText(text))) = ParseCsvText(text)
  /\ text # <<>> /\ text[1] # "bom" => ParseCsv(text) = ParseCsvText(text)

\* A file that is accepted says for every payment what it is for: nobody is
\* paid twice unless that was asked for, every amount is the hours times the
\* rate, in the asset this deployment settles, for a period that ends after it
\* starts; and of a file that is not, each row is accepted or has its line named.
FileIsJustified ==
  LET report == ValidateCsv(header, sheet, refuses, "USDC") IN
  /\ report.valid =>
       /\ Len(report.rows) = Len(sheet) /\ Len(sheet) <= MaxRows
       /\ \A i \in 1..Len(report.rows) :
            LET p == report.rows[i] IN
            /\ p.amount = p.hours * p.rate /\ p.amount > 0 /\ p.asset = "USDC" /\ p.to > p.from
            /\ refuses => \A k \in 1..(i - 1) : report.rows[k].recipient # p.recipient
  /\ report.rows # <<>> =>
       Len(report.rows) + Cardinality({e[1] : e \in {e \in report.errors : e[1] > 1}}) = Len(sheet)
==============================================================================
