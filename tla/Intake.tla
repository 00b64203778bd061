-------------------------------- MODULE Intake --------------------------------
(***************************************************************************)
(* The data mapping layer in front of ingestion: which column of an upload *)
(* is which field, what a merchant confirms about a shape of headers and   *)
(* what a later upload of that shape reuses, and how a cell is then read   *)
(* (column_mapping.py, column_mapping_store.py, routes/mapping.py and      *)
(* uploads.py; numeric.py and locale_dates.py).                            *)
(*                                                                         *)
(* What becomes of the upload itself, its task and its file is Ingestion's *)
(* subject; here every task runs.  One merchant and one kind of file.      *)
(***************************************************************************)
EXTENDS Integers, Sequences, FiniteSets, FiniteSetsExt, SequencesExt, Folds

CONSTANTS
    Words,        \* normalised headers
    FieldOrder,   \* the canonical fields, in the order of CANONICAL_SYNONYMS
    Exact,        \* the headers that are synonyms of each field
    Money,        \* MONEY_FIELDS
    Tables,       \* what rapidfuzz may say: similarity in per cent, by word and field
    Files,        \* sequences of headers
    Uploads, Clients,
    Cells,        \* dates <<a, b>> of a date column, read "a/b/year"
    Amounts,      \* amounts of a money column
    Unset

VARIABLES
    table,        \* what rapidfuzz says of this merchant's headers
    saved,        \* column_mappings: by signature, Unset without a row
    file,         \* the columns of each upload, Unset before it is staged
    status,       \* of each upload
    tasks,        \* what each upload was dispatched with
    confirmed,    \* what users have confirmed, and for which signature
    session       \* requests in flight

intakeVars == <<table, saved, file, status, tasks, confirmed, session>>

Spellings == {"plain", "padded"}
Header == [word : Words, spelling : Spellings]
Fields == ToSet(FieldOrder)
Locales == {"day_first", "month_first"}

\* An amount: its sign, its digits before and after the point, and the
\* thousand or million its letter stands for
Amount == [signed : BOOLEAN, whole : Nat, fraction : Seq(0 .. 9), unit : {1, 1000, 1000000}]

ASSUME IntakeAssumption ==
    /\ FieldOrder \in Seq(Fields) /\ IsInjective(FieldOrder)
    /\ Money \subseteq Fields /\ Exact \in [Fields -> SUBSET Words]
    /\ Tables \subseteq [Words -> [Fields -> 0 .. 100]]
    /\ Unset \notin Header \cup Files \cup Locales /\ Amounts \subseteq Amount
    /\ \A f \in Files : f \in Seq(Header) /\ IsInjective(f)

-----------------------------------------------------------------------------
(* resolve_mapping *)

\* A match, with its place in the order of the file and of the fields
Match(columns, i, k, score) == [header |-> columns[i], field |-> FieldOrder[k], score |-> score,
                             place |-> (i - 1) * Len(FieldOrder) + k]

TakenHeaders(matches) == {m.header : m \in matches}
TakenFields(matches) == {m.field : m \in matches}

\* Tier 1: each field in turn takes the first header that is a synonym
Take(columns, matches, k) ==
    LET open == {i \in DOMAIN columns : /\ columns[i].word \in Exact[FieldOrder[k]]
                                        /\ columns[i] \notin TakenHeaders(matches)}
    IN  IF open = {} THEN matches ELSE matches \cup {Match(columns, Min(open), k, 100)}
ExactMatches(columns) == FoldLeftDomain(LAMBDA matches, k : Take(columns, matches, k), {}, FieldOrder)

\* The pairs left with a score worth asking about
Candidates(columns, scores) ==
    LET exact == ExactMatches(columns)
        Pair(i, k) == Match(columns, i, k, scores[columns[i].word][FieldOrder[k]])
        pairs == {Pair(i, k) : i \in DOMAIN columns, k \in DOMAIN FieldOrder}
    IN  {m \in pairs : /\ m.header \notin TakenHeaders(exact) /\ m.field \notin TakenFields(exact)
                       /\ m.score >= 50}

\* Their order: the best score first, the place in the files among equals
Better(m, n) == m.score > n.score \/ (m.score = n.score /\ m.place < n.place)
Best(matches) == CHOOSE m \in matches : \A n \in matches : ~Better(n, m)
Worst(matches) == CHOOSE m \in matches : \A n \in matches : ~Better(m, n)

\* The second-best score of a header, before any is assigned
RunnerUp(candidates, header) ==
    LET own == {m \in candidates : m.header = header}
        others == own \ {Best(own)}
    IN  IF others = {} THEN 0 ELSE Best(others).score

\* Tier 2: applied without asking
BugSure(m, runnerUp) == m.score >= 82 /\ m.score - runnerUp >= 10   \* a bug: money too
Sure(m, runnerUp) ==
    /\ m.score >= 82 /\ m.score - runnerUp >= 10
    /\ m.field \notin Money

\* bugs: the field, or the header, of a match stays open for the next candidate
BugFree(m, matches) == m.header \notin TakenHeaders(matches)
BugHeaderFree(m, matches) == m.field \notin TakenFields(matches)
Free(m, matches) == m.header \notin TakenHeaders(matches) /\ m.field \notin TakenFields(matches)

\* What becomes of a candidate
Assign(candidates, m, r) ==
    IF ~Free(m, r.auto \cup r.ask) THEN r
    ELSE IF Sure(m, RunnerUp(candidates, m.header)) THEN [r EXCEPT !.auto = @ \cup {m}]
    ELSE [r EXCEPT !.ask = @ \cup {m}]

\* The matches applied and those to confirm, the candidates taken best first:
\* the rest of the headers is unmapped.
ResolveMapping(columns, scores) ==
    LET candidates == Candidates(columns, scores)
    IN  MapThenFoldSet(LAMBDA m, r : Assign(candidates, m, r),
                       [auto |-> ExactMatches(columns), ask |-> {}],
                       LAMBDA m : m, Worst, candidates)

\* What is stored and sent: {header: field}
MappingOf(matches) == {<<m.header, m.field>> : m \in matches}

\* compute_source_signature: the normalised headers, sorted
BugSignature(columns) == Len(columns)   \* a bug: the number of columns
Signature(columns) == [w \in Words |-> Cardinality({i \in DOMAIN columns : columns[i].word = w})]

Signatures == {Signature(columns) : columns \in Files}

-----------------------------------------------------------------------------
(* Reading a cell *)

\* pandas reads <<a, b>> by the locale, and the other way round where the
\* locale gives no date: <<day, month>>, Unset where neither does
Reading(cell, dayFirst) ==
    LET forward == IF dayFirst THEN <<cell[1], cell[2]>> ELSE <<cell[2], cell[1]>>
        backward == <<forward[2], forward[1]>>
    IN  IF forward[2] <= 12 THEN forward ELSE IF backward[2] <= 12 THEN backward ELSE Unset

BugAmbiguous(cell) == cell[1] < 12 /\ cell[2] < 12    \* a bug: December is left out
Ambiguous(cell) == cell[1] <= 12 /\ cell[2] <= 12

\* parse_locale_date: the date, or Unset with INVALID_DATE or AMBIGUOUS_DATE
ParseLocaleDate(cell, locale) ==
    LET parsed == Reading(cell, locale # "month_first")
        alternate == Reading(cell, locale = "month_first")
    IN  IF locale = Unset /\ Ambiguous(cell) /\ alternate # parsed THEN Unset ELSE parsed

Digits(amount) == FoldLeft(LAMBDA n, d : (10 * n) + d, amount.whole, amount.fraction)
Scale(amount) == FoldLeft(LAMBDA n, d : 10 * n, 1, amount.fraction)

\* The fraction cut or filled to two digits
BugKoboDigits(fraction) ==    \* a bug: one digit counts as kobo
    FoldLeft(LAMBDA n, d : (10 * n) + d, 0, SubSeq(fraction, 1, Min({2, Len(fraction)})))
KoboDigits(fraction) ==
    LET Digit(i) == IF i <= Len(fraction) THEN fraction[i] ELSE 0 IN (10 * Digit(1)) + Digit(2)

\* parse_kobo, after the symbols are stripped: kobo, or Unset for a signed
\* amount with a letter, which neither the patterns nor int() read
ParseKobo(amount) ==
    LET kobo == (amount.whole * 100) + KoboDigits(amount.fraction)
    IN  IF amount.unit = 1 THEN IF amount.signed THEN -kobo ELSE kobo
        ELSE IF amount.signed THEN Unset
        ELSE (Digits(amount) * amount.unit * 100) \div Scale(amount)

-----------------------------------------------------------------------------
(* Requests *)

NoJob == [pc |-> "idle", up |-> Unset, found |-> Unset]

IntakeInit ==
    /\ table \in Tables
    /\ saved = [g \in Signatures |-> Unset]
    /\ file = [u \in Uploads |-> Unset]
    /\ status = [u \in Uploads |-> "none"]
    /\ tasks = [u \in Uploads |-> {}]
    /\ confirmed = {}
    /\ session = [q \in Clients |-> NoJob]

InStage(q, pc) == session[q].pc = pc
Reply(q) == session' = [session EXCEPT ![q] = NoJob]

\* A mapping as it is saved and dispatched: its value rules, who it is from
Rules(mapping, locale, byUser) == [mapping |-> mapping, locale |-> locale, byUser |-> byUser]

\* upload_csv: the file is staged and the saved mapping of its signature read.
Upload(q, u, columns) ==
    /\ InStage(q, "idle") /\ file[u] = Unset
    /\ file' = [file EXCEPT ![u] = columns]
    /\ session' = [session EXCEPT ![q] =
          [pc |-> "found", up |-> u, found |-> saved[Signature(columns)]]]
    /\ UNCHANGED <<table, saved, status, tasks, confirmed>>

Resolved(u) == ResolveMapping(file[u], table)

\* Nothing saved and nothing to ask: the mapping is saved for no user.
SaveAutomatic(q) ==
    LET u == session[q].up
        auto == Rules(MappingOf(Resolved(u).auto), Unset, FALSE)
    IN  /\ InStage(q, "found") /\ session[q].found = Unset /\ Resolved(u).ask = {}
        /\ saved' = [saved EXCEPT ![Signature(file[u])] = auto]
        /\ session' = [session EXCEPT ![q].found = auto]
        /\ UNCHANGED <<table, file, status, tasks, confirmed>>

\* Nothing saved and something to ask: the upload waits.
AskUser(q) ==
    LET u == session[q].up
    IN  /\ InStage(q, "found") /\ session[q].found = Unset /\ Resolved(u).ask # {}
        /\ status' = [status EXCEPT ![u] = "needs_mapping"]
        /\ Reply(q)
        /\ UNCHANGED <<table, saved, file, tasks, confirmed>>

\* _dispatch_ingestion: the mapping is frozen in the task.
BugForwarded(rules) == [rules EXCEPT !.locale = Unset]   \* a bug: the value rules are dropped
Forwarded(rules) == rules

Dispatch(q) ==
    LET u == session[q].up
    IN  /\ InStage(q, "found") /\ session[q].found # Unset
        /\ status' = [status EXCEPT ![u] = "processing"]
        /\ tasks' = [tasks EXCEPT ![u] = @ \cup {Forwarded(session[q].found)}]
        /\ Reply(q)
        /\ UNCHANGED <<table, saved, file, confirmed>>

\* _load_upload_for_mapping
BeginConfirm(q, u) ==
    /\ InStage(q, "idle") /\ status[u] = "needs_mapping"
    /\ session' = [session EXCEPT ![q] = [pc |-> "confirm", up |-> u, found |-> Unset]]
    /\ UNCHANGED <<table, saved, file, status, tasks, confirmed>>

\* confirm_mapping: the user accepts some of the questions and may say how
\* dates are written.
Confirm(q, accepted, locale) ==
    LET u == session[q].up
        rules == Rules(MappingOf(Resolved(u).auto \cup accepted), locale, TRUE)
    IN  /\ InStage(q, "confirm") /\ accepted \subseteq Resolved(u).ask
        /\ saved' = [saved EXCEPT ![Signature(file[u])] = rules]
        /\ confirmed' = confirmed \cup {<<Signature(file[u]), rules>>}
        /\ session' = [session EXCEPT ![q].pc = "found", ![q].found = rules]
        /\ UNCHANGED <<table, file, status, tasks>>

IntakeNext ==
    \E q \in Clients :
        \/ \E u \in Uploads : BeginConfirm(q, u) \/ \E columns \in Files : Upload(q, u, columns)
        \/ SaveAutomatic(q) \/ AskUser(q) \/ Dispatch(q)
        \/ \E locale \in Locales \cup {Unset} :
              \E accepted \in SUBSET (IF InStage(q, "confirm") THEN Resolved(session[q].up).ask ELSE {}) :
                  Confirm(q, accepted, locale)

IntakeSpec == IntakeInit /\ [][IntakeNext]_intakeVars

-----------------------------------------------------------------------------
(* A task *)

\* The column a task reads a field from; Unset leaves the field empty.
ColumnOf(u, task, field) ==
    LET headers == {p[1] : p \in {r \in task.mapping : r[2] = field}}
    IN  IF headers # {} /\ headers \subseteq ToSet(file[u]) THEN CHOOSE h \in headers : TRUE
        ELSE Unset

\* The dates a task stores
Dates(task) == {<<c, ParseLocaleDate(c, task.locale)>> : c \in Cells}

Tasks == UNION {{u} \X tasks[u] : u \in Uploads}

-----------------------------------------------------------------------------
(* Properties *)

\* A mapping is a dict {header: field}.
IsRules(rules) ==
    /\ rules \in [mapping : SUBSET (Header \X Fields), locale : Locales \cup {Unset}, byUser : BOOLEAN]
    /\ \A p, r \in rules.mapping : p[1] = r[1] => p = r

IntakeTypeOK ==
    /\ table \in Tables
    /\ DOMAIN saved = Signatures
    /\ \A g \in Signatures : saved[g] = Unset \/ IsRules(saved[g])
    /\ file \in [Uploads -> Files \cup {Unset}]
    /\ status \in [Uploads -> {"none", "needs_mapping", "processing"}]
    /\ \A u \in Uploads : \A t \in tasks[u] : IsRules(t)
    /\ \A q \in Clients : session[q].pc \in {"idle", "found", "confirm"}
    /\ \A q \in Clients : session[q].found = Unset \/ IsRules(session[q].found)

\* No two columns feed one field, so that inverting a mapping loses none of
\* them (bank_ingestion.py:153).
MappingInverts ==
    \A x \in Tasks : \A p, r \in x[2].mapping : p[2] = r[2] => p = r

\* Money is read from a column whose header is a synonym of the field, or one
\* that a user has confirmed for this shape of file, however many uploads have
\* reused the mapping since (column_mapping.py:226).
MoneyTrusted ==
    \A x \in Tasks : \A p \in x[2].mapping :
        p[2] \in Money =>
            \/ p[1].word \in Exact[p[2]]
            \/ \E c \in confirmed : c[1] = Signature(file[x[1]]) /\ p \in c[2].mapping

\* The columns a mapping names are, but for their spelling, those of the file
\* it is applied to (routes/uploads.py:330).
AppliesToFile ==
    \A x \in Tasks : \A p \in x[2].mapping :
        p[1].word \in {h.word : h \in ToSet(file[x[1]])}

\* A task that reuses a user's mapping reads columns and dates as a user has
\* confirmed them for this shape of file, together (routes/uploads.py:385).
ReadsAsConfirmed ==
    \A x \in Tasks : x[2].byUser => <<Signature(file[x[1]]), x[2]>> \in confirmed

\* What a task reads a file by can be trusted, whichever uploads and
\* confirmations of one shape of file overtake each other: two columns never
\* feed one field, money rests on no guess, the columns are the file's, and a
\* user's word is kept as a whole (column_mapping.py:219, routes/uploads.py:297).
MappingTrusted == MappingInverts /\ MoneyTrusted /\ AppliesToFile /\ ReadsAsConfirmed

\* Until someone says how dates are written, a task stores only those that
\* read the same either way (locale_dates.py:94).
DatesUnambiguous ==
    \A x \in Tasks : x[2].locale = Unset =>
        \A d \in Dates(x[2]) : d[2] # Unset => d[2] = Reading(d[1], TRUE) /\ d[2] = Reading(d[1], FALSE)

\* A task stores an amount it can read to the kobo, cut and not rounded,
\* however it is written (numeric.py:108).
AmountsExact ==
    \A x \in Tasks : (\E field \in Money : ColumnOf(x[1], x[2], field) # Unset) =>
        \A a \in Amounts :
            LET exact == (Digits(a) * a.unit * 100) \div Scale(a)
            IN  \/ a.signed /\ a.unit # 1
                \/ ParseKobo(a) = IF a.signed THEN -exact ELSE exact

\* A cell is stored as what it says or not at all (locale_dates.py:53,
\* numeric.py:72).
CellsExact == DatesUnambiguous /\ AmountsExact

\* A mapping reused "zero-touch" reads every column it was confirmed for.
ReusedMappingReads ==
    \A x \in Tasks : \A p \in x[2].mapping : ColumnOf(x[1], x[2], p[2]) = p[1]
=============================================================================
