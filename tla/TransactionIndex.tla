--------------------------- MODULE TransactionIndex ---------------------------
(***************************************************************************)
(* Ledger files as lines, the index of the transactions in them, the       *)
(* opaque references it hands out, and the splices the mutation store      *)
(* makes in a file.                                                        *)
(*                                                                         *)
(* A line is a directive and the number of the line in its text, so two    *)
(* copies of one directive are the same text at different places; or it is *)
(* a line of its own: empty, a comment, or metadata of the posting above.  *)
(* A file also says whether its last line ends in a newline.  The splices  *)
(* work on text: a replacement takes the first place where the characters  *)
(* stand, be it the beginning of a longer transaction, and drops the       *)
(* newline of what it replaces, so that two lines become one.              *)
(***************************************************************************)
EXTENDS Integers, Sequences, FiniteSets, SequencesExt

CONSTANTS
    Path,          \* the files of the include graph
    SidecarPath,   \* those the program may write
    MonthPath,     \* this month's sidecar file
    MainPath       \* the sidecar's main file, where accounts are opened

ASSUME PathAssumption ==
    /\ IsFiniteSet(Path)
    /\ SidecarPath \subseteq Path
    /\ {MonthPath, MainPath} \subseteq SidecarPath
    /\ MonthPath # MainPath

-----------------------------------------------------------------------------
(* Text.                                                                   *)

Blank  == <<[kind |-> "blank"], 0>>
Note   == <<[kind |-> "note"], 0>>      \* a comment, indented
Meta   == <<[kind |-> "meta"], 0>>      \* metadata, indented: of the posting above it
Remark == <<[kind |-> "remark"], 0>>    \* a comment at the left margin
Glued  == <<[kind |-> "glued"], 0>>     \* the end of one text and the start of another

Loose == {Blank, Note, Meta, Remark}

\* A transaction has a header and two postings; with a note, a comment stands
\* behind the last of them, on the same line.
Height(d) == IF d.kind = "txn" THEN 3 ELSE 1

LinesOf(d) == [i \in 1 .. Height(d) |-> <<d, i>>]

Commented(d) == [d EXCEPT !.note = TRUE]

\* A directive without the comment.
Plain(d) == IF d.kind = "txn" THEN [d EXCEPT !.note = FALSE] ELSE d

Below(text) == <<Blank>> \o text

\* What is appended for a directive: two comments come before a price.
Paragraph(d) == IF d.kind = "price" THEN <<Remark, Remark>> \o LinesOf(d) ELSE LinesOf(d)

\* Directives that are appended together are separated by an empty line.
TextOf(ds) ==
    LET text[n \in 0 .. Len(ds)] ==
            CASE n = 0 -> <<>>
              [] n = 1 -> Paragraph(ds[1])
              [] OTHER -> text[n - 1] \o Below(Paragraph(ds[n]))
    IN  text[Len(ds)]

\* append writes a newline, the text and a newline.
Appended(file, text) ==
    [file EXCEPT !.lines = @ \o (IF file.ended THEN Below(text) ELSE text),
                 !.ended = TRUE]

\* A text is a transaction, the comments and metadata right below it, and
\* whether a newline follows.
TextLines(text) == LinesOf(text.directive) \o text.tail

Size(text) == Height(text.directive) + Len(text.tail)

LinesFrom(file, text, k) == SubSeq(file.lines, k, k + Size(text) - 1)

\* old_text in original: the characters stand there, whatever follows them.  A
\* text with its newline needs whole lines; one without may end where a comment
\* goes on.
OccursAt(file, text, k) ==
    LET last == k + Size(text) - 1
    IN  /\ last <= Len(file.lines)
        /\ \/ /\ LinesFrom(file, text, k) = TextLines(text)
              /\ text.ended => last < Len(file.lines) \/ file.ended
           \/ /\ ~text.ended /\ text.tail = <<>>
              /\ LinesFrom(file, text, k) = LinesOf(Commented(text.directive))

\* The whole lines at a place are exactly a text.
StandsAt(file, text, k) ==
    LET last == k + Size(text) - 1
    IN  /\ last <= Len(file.lines)
        /\ LinesFrom(file, text, k) = TextLines(text)
        /\ text.ended = (last < Len(file.lines) \/ file.ended)

Occurrences(file, text) == {k \in DOMAIN file.lines : OccursAt(file, text, k)}

FirstOf(places) == CHOOSE k \in places : \A j \in places : k <= j

\* What becomes of the last line of a new text when another line follows it
\* with no newline between: an empty one adds nothing, a comment stands behind
\* the posting, anything else does not parse.
JoinedTo(new, next) ==
    CASE next = Blank             -> LinesOf(new)
      [] next \in {Note, Remark}  -> LinesOf(Commented(new))
      [] OTHER                    -> Front(LinesOf(new)) \o <<Glued>>

\* str.replace(old, new.strip(), 1): the first occurrence, without its newline.
\* The comments and metadata below it stay if they are not of the old text.
Replaced(file, text, new) ==
    LET k      == FirstOf(Occurrences(file, text))
        last   == k + Size(text) - 1
        before == SubSeq(file.lines, 1, k - 1)
        after  == SubSeq(file.lines, last + 1, Len(file.lines))
        inside == IF LinesFrom(file, text, k) = TextLines(text) THEN LinesOf(new)
                  ELSE LinesOf(Commented(new))
    IN  IF text.ended /\ last < Len(file.lines)
        THEN [file EXCEPT !.lines = before \o JoinedTo(new, file.lines[last + 1]) \o Tail(after)]
        ELSE [file EXCEPT !.lines = before \o inside \o after,
                          !.ended = @ /\ ~text.ended]

\* mutant: the line below the text goes too
DeletedLong(file, text, k) ==
    LET last == k + Size(text)
    IN  [file EXCEPT !.lines = SubSeq(@, 1, k - 1) \o SubSeq(@, last + 1, Len(@))]

\* delete removes the lines at the line it was given.
Deleted(file, text, k) ==
    LET last == k + Size(text) - 1
    IN  [file EXCEPT !.lines = SubSeq(@, 1, k - 1) \o SubSeq(@, last + 1, Len(@)),
                     !.ended = @ \/ last = Len(file.lines)]

-----------------------------------------------------------------------------
(* The index.                                                              *)

IsHeader(line) == line[1].kind = "txn" /\ line[2] = 1
IsIndented(line) == line \in {Note, Meta} \/ (line[1].kind = "txn" /\ line[2] > 1)

Headers(file) == {k \in DOMAIN file.lines : IsHeader(file.lines[k])}

\* _extract_directive: the header and the indented lines right below it.
EndOf(file, k) ==
    CHOOSE e \in k .. Len(file.lines) :
        /\ \A i \in (k + 1) .. e : IsIndented(file.lines[i])
        /\ e = Len(file.lines) \/ ~IsIndented(file.lines[e + 1])

\* The bytes a revision fingerprint is the digest of.
TextAt(file, k) ==
    LET d == file.lines[k][1]
    IN  [directive |-> d,
         tail      |-> SubSeq(file.lines, k + Height(d), EndOf(file, k)),
         ended     |-> EndOf(file, k) < Len(file.lines) \/ file.ended]

\* The facts of a transaction: metadata is one of them, a comment is not.
Identity(text) == [says |-> Plain(text.directive), meta |-> Meta \in ToSet(text.tail)]

\* The loader sorts entries by date and line; a reference counts per file.
Occurrence(file, k) ==
    Cardinality({j \in Headers(file) :
                    \/ file.lines[j][1].date < file.lines[k][1].date
                    \/ file.lines[j][1].date = file.lines[k][1].date /\ j <= k})

Ref(ledger, p, k) ==
    [path |-> p, start |-> k, occurrence |-> Occurrence(ledger[p], k),
     identity |-> Identity(TextAt(ledger[p], k))]

IndexOfFile(ledger, p) ==
    {[ref |-> Ref(ledger, p, k), text |-> TextAt(ledger[p], k),
      end |-> EndOf(ledger[p], k)] : k \in Headers(ledger[p])}

\* One entry for each transaction; no two have the same path and line.
IndexOf(ledger) == UNION {IndexOfFile(ledger, p) : p \in Path}

\* parse_transaction_ref
IsWellFormed(ref) == ref.path \in Path /\ ref.start >= 1 /\ ref.occurrence >= 1

\* The entries a reference names: one, or none when it is malformed, stale or
\* of a transaction that is not there.
Resolves(index, ref) == {e \in index : IsWellFormed(ref) /\ e.ref = ref}

\* The answer to the caller when it names none.
RefCode(index, ref) ==
    CASE ~IsWellFormed(ref)         -> "malformed"
      [] Resolves(index, ref) # {}  -> "ok"
      [] OTHER ->
            IF \E e \in index : /\ e.ref.path = ref.path
                                /\ \/ e.ref.occurrence = ref.occurrence
                                   \/ e.ref.start = ref.start
                                   \/ e.ref.identity = ref.identity
            THEN "stale" ELSE "not_found"

-----------------------------------------------------------------------------
(* Where the transactions of a base revision stand in a draft of it.       *)

Positions(index) ==
    [ref \in {e.ref : e \in index} |->
        LET e == CHOOSE x \in index : x.ref = ref
        IN  [start |-> ref.start, end |-> e.end]]

\* mutant: a splice moves nothing
StillAfter(positions, path, first, last, delta) ==
    LET kept == {ref \in DOMAIN positions :
                    \/ ref.path # path
                    \/ positions[ref].end < first
                    \/ positions[ref].start > last}
    IN  [ref \in kept |-> positions[ref]]

\* One splice: lines first .. last of a file gave way to delta more lines.  A
\* transaction it overlaps is lost, one below it moves.
ShiftedAfter(positions, path, first, last, delta) ==
    LET kept == {ref \in DOMAIN positions :
                    \/ ref.path # path
                    \/ positions[ref].end < first
                    \/ positions[ref].start > last}
    IN  [ref \in kept |->
            IF ref.path = path /\ positions[ref].start > last
            THEN [start |-> positions[ref].start + delta, end |-> positions[ref].end + delta]
            ELSE positions[ref]]

=============================================================================
