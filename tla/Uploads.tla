------------------------------- MODULE Uploads -------------------------------
(***************************************************************************)
(* Uploaded files: what is read out of them, how a message of the chat or  *)
(* the import page turns them into a version of a specification, and their *)
(* cancellation.                                                           *)
(*                                                                         *)
(* A request stores the bytes, inserts the row and records the upload, one *)
(* after the other; an attachment or the import page reads the row and     *)
(* later publishes it by a transaction of its own (publishSpecification-   *)
(* Import, whose work on the specification is the module SpecVersions); a  *)
(* cancellation reads, writes and records.  Any of them may die between.   *)
(*                                                                         *)
(* Abstractions: a document is a sequence of records, written as a table,  *)
(* as lines "field: value" in some order, or as delimited lines; the value *)
(* of a field is the number of the record it was written for, the quantity *)
(* and the unit are one field.  Encodings, patterns of cells, aliases of   *)
(* headers and wording are left out.                                       *)
(***************************************************************************)
EXTENDS Integers, Sequences, SequencesExt, FiniteSets

CONSTANTS
  Loads,       \* requests that may be in flight at once
  Papers,      \* uploaded files
  Contents,    \* bound: what may be written in each, a set of [Papers -> Document]
  Targets,     \* what a publication may name: a new or an existing specification
  MaxRows      \* rows that are read of a file: 500 in the code

ASSUME UploadAssumption == MaxRows \in Nat \ {0} /\ "none" \notin Targets

VARIABLES
  written,   \* what each file contains
  stored,    \* files whose bytes are kept by the storage
  paper,     \* the uploaded_files rows
  released,  \* the version made from each file (sourceFileId)
  recorded,  \* the audit_logs events about files
  said,      \* the last answer of a request
  load       \* local state of every request

uploadVars == <<written, stored, paper, released, recorded, said, load>>

-----------------------------------------------------------------------------
(* Documents *)

Fields == {"code", "name", "rest", "extra"}
Required == Fields \ {"extra"}

\* records: the code of each record; order: the fields of a record as they are
\* written, each once; missing: fields that are not; stray: lines between that
\* are none of a labelled record's.
Document == [form : {"table", "labelled", "delimited", "image", "corrupt"},
             records : Seq(STRING), order : {o \in Seq(Fields) : IsInjective(o)},
             missing : SUBSET (Nat \X Fields), stray : Nat]

ASSUME ContentsAssumption == Contents \subseteq [Papers -> Document]

\* A row by the record each of its fields comes from; 0 is none.
Blank == [f \in Fields |-> 0]
Complete(row) == \A f \in Required : row[f] # 0

Numbered(doc) == 1 .. Len(doc.records)
RowOf(doc, n) == [f \in Fields |-> IF <<n, f>> \in doc.missing THEN 0 ELSE n]
Cut(rows) == SubSeq(rows, 1, IF Len(rows) < MaxRows THEN Len(rows) ELSE MaxRows)

\* parseCsv, parseWorkbook: the first rows as they are.
TableRows(doc) == Cut([n \in Numbered(doc) |-> RowOf(doc, n)])

\* What has been read of a text: the row at hand, the rows before it, and how many
\* records were no rows.
Read == [row : [Fields -> Nat], rows : Seq([Fields -> Nat]), rejected : Nat]
Unread == [row |-> Blank, rows |-> <<>>, rejected |-> 0]
Accounted(read) ==
  [row |-> Blank,
   rows |-> IF Complete(read.row) THEN Append(read.rows, read.row) ELSE read.rows,
   rejected |-> read.rejected + (IF Complete(read.row) THEN 0 ELSE 1)]

\* labeledPositionRowsFromText: a code ends the record before it.
Answered(read) == IF read.row = Blank THEN read ELSE Accounted(read)
ReadField(doc, n, read, field) ==
  LET before == IF field = "code" /\ read.row["code"] # 0 THEN Answered(read) ELSE read
  IN  IF <<n, field>> \in doc.missing THEN read ELSE [before EXCEPT !.row[field] = n]
ReadRecord(doc, n, read) ==
  FoldLeft(LAMBDA r, field : ReadField(doc, n, r, field), read, doc.order)
Labelled(doc) ==
  Answered(FoldLeftDomain(LAMBDA read, n : ReadRecord(doc, n, read), Unread, doc.records))

\* positionalPositionRowsFromText, until the limit is reached.
ReadDelimited(doc, n, read) ==
  IF Len(read.rows) = MaxRows THEN read ELSE Accounted([read EXCEPT !.row = RowOf(doc, n)])
Delimited(doc) ==
  FoldLeftDomain(LAMBDA read, n : ReadDelimited(doc, n, read), Unread, doc.records)

\* Faulty variant: rejected records do not matter as long as there are others.
AnyAccepted(rows, rejected) == rows # <<>>

\* documentResult
AllAccepted(rows, rejected) == rows # <<>> /\ rejected = 0

\* parseUploadedFile: the rows of a file and its parse_status.  Images are known
\* by their hash; one that is not is left to people.
Parsed(doc) ==
  LET text == IF doc.form = "labelled" THEN Labelled(doc) ELSE Delimited(doc)
      rejected == text.rejected + doc.stray
  IN  CASE doc.form = "table" -> [rows |-> TableRows(doc), status |-> "PARSED"]
        [] doc.form = "image" -> [rows |-> <<>>, status |-> "REVIEW_REQUIRED"]
        [] OTHER -> [rows |-> Cut(text.rows),
                     status |-> IF AllAccepted(text.rows, rejected) THEN "PARSED"
                                ELSE "REVIEW_REQUIRED"]

\* validateSpecificationImport: no row is wrong and no code comes twice.
Valid(doc, rows) ==
  /\ rows # <<>>
  /\ \A n \in DOMAIN rows : Complete(rows[n])
  /\ \A m, n \in DOMAIN rows :
       doc.records[rows[m]["code"]] = doc.records[rows[n]["code"]] => m = n
-----------------------------------------------------------------------------
(* Rows and local records *)

PaperStatuses == {"NONE", "PARSED", "REVIEW_REQUIRED", "CANCELLED"}
NoPaper == [status |-> "NONE", rows |-> <<>>]
NoRelease == [target |-> "none", rows |-> <<>>]

Load == [pc : {"idle", "save", "logUpload", "publish", "cancel", "logCancel"},
         paper : Papers, target : Targets \cup {"none"}, rows : Seq([Fields -> Nat])]
NoLoad == [pc |-> "idle", paper |-> CHOOSE f \in Papers : TRUE, target |-> "none",
           rows |-> <<>>]

UploadInit ==
  /\ written \in Contents
  /\ stored = {}
  /\ paper = [f \in Papers |-> NoPaper]
  /\ released = [f \in Papers |-> NoRelease]
  /\ recorded = {}
  /\ said = [outcome |-> "none", paper |-> NoLoad.paper, target |-> "none"]
  /\ load = [p \in Loads |-> NoLoad]

Idle(p) == load[p].pc = "idle"
Does(p, pc, f) == load' = [load EXCEPT ![p].pc = pc, ![p].paper = f]
Done(p) == load' = [load EXCEPT ![p] = NoLoad]
Record(action, f) == recorded' = recorded \cup {<<action, f>>}
Say(outcome, f, target) ==
  said' = [outcome |-> outcome, paper |-> f, target |-> target]

-----------------------------------------------------------------------------
(* Uploading *)

\* POST /api/uploads: a file whose content is not what its name says is refused
\* before its bytes are stored.
Upload(p, f) ==
  /\ Idle(p)
  /\ paper[f].status = "NONE" /\ f \notin stored
  /\ written[f].form # "corrupt"
  /\ stored' = stored \cup {f}
  /\ Does(p, "save", f)
  /\ UNCHANGED <<written, paper, released, recorded, said>>

\* saveUploadedFile
Save(p) ==
  LET f == load[p].paper
      parsed == Parsed(written[f])
  IN  /\ load[p].pc = "save"
      /\ paper' = [paper EXCEPT ![f] = [status |-> parsed.status, rows |-> parsed.rows]]
      /\ Does(p, "logUpload", f)
      /\ UNCHANGED <<written, stored, released, recorded, said>>

RecordUpload(p) ==
  /\ load[p].pc = "logUpload"
  /\ Record("FILE_UPLOADED_AND_PARSED", load[p].paper)
  /\ Done(p)
  /\ UNCHANGED <<written, stored, paper, released, said>>

-----------------------------------------------------------------------------
(* Publishing *)

Publishable(f) ==
  /\ paper[f].status = "PARSED"
  /\ Valid(written[f], paper[f].rows)

\* handle, up to the publication: one file, or several that are refused; a
\* file to refer to, one to be looked over, one whose target is not clear or
\* whose publication was not asked for; else it is published.
AttachPaper(p, f) ==
  /\ Idle(p)
  /\ \E target \in Targets \cup {"none"}, asked, single, specification \in BOOLEAN :
       LET status == paper[f].status
           outcome == CASE ~single \/ status \in {"NONE", "CANCELLED"} -> "clarification"
                        [] ~specification -> "PREVIEW"
                        [] ~Publishable(f) -> "REVIEW_REQUIRED"
                        [] ~asked \/ target = "none" -> "PREVIEW"
                        [] OTHER -> "publish"
       IN  IF outcome = "publish"
           THEN /\ load' = [load EXCEPT ![p] = [pc |-> "publish", paper |-> f, target |-> target,
                                                rows |-> paper[f].rows]]
                /\ UNCHANGED <<recorded, said>>
           ELSE /\ Say(outcome, f, target)
                /\ IF outcome = "clarification" THEN UNCHANGED recorded
                   ELSE Record("agent.attachment.previewed", f)
                /\ UNCHANGED load
  /\ UNCHANGED <<written, stored, paper, released>>

\* POST /api/specifications/import/publish, up to the publication.
AskToPublish(p, f, target) ==
  /\ Idle(p)
  /\ paper[f].status = "PARSED"
  /\ IF Publishable(f)
     THEN /\ load' = [load EXCEPT ![p] = [pc |-> "publish", paper |-> f, target |-> target,
                                          rows |-> paper[f].rows]]
          /\ UNCHANGED recorded
     ELSE /\ Record("specification.import.validation_rejected", f)
          /\ UNCHANGED load
  /\ UNCHANGED <<written, stored, paper, released, said>>

\* Faulty variant: the status is the one that was read before the transaction.
AsWasRead(f) == TRUE

\* The row is locked, and its status looked at again.
StillParsed(f) == paper[f].status = "PARSED"

\* publishSpecificationImport: a file that has become a version is answered with
\* it, whatever target is named now.
Publish(p) ==
  LET f == load[p].paper
  IN  /\ load[p].pc = "publish"
      /\ IF ~StillParsed(f) \/ released[f] # NoRelease
         THEN UNCHANGED <<released, recorded>>
         ELSE /\ released' = [released EXCEPT ![f] = [target |-> load[p].target,
                                                      rows |-> load[p].rows]]
              /\ Record("specification.import.created", f)
      /\ IF StillParsed(f) THEN Say("PUBLISHED", f, load[p].target) ELSE UNCHANGED said
      /\ Done(p)
      /\ UNCHANGED <<written, stored, paper>>

-----------------------------------------------------------------------------
(* Cancelling *)

\* DELETE /api/uploads/:id, for any status the file has.
FindToCancel(p, f) ==
  /\ Idle(p)
  /\ paper[f].status # "NONE"
  /\ Does(p, "cancel", f)
  /\ UNCHANGED <<written, stored, paper, released, recorded, said>>

Cancel(p) ==
  /\ load[p].pc = "cancel"
  /\ paper' = [paper EXCEPT ![load[p].paper].status = "CANCELLED"]
  /\ Does(p, "logCancel", load[p].paper)
  /\ UNCHANGED <<written, stored, released, recorded, said>>

RecordCancel(p) ==
  LET f == load[p].paper
  IN  /\ load[p].pc = "logCancel"
      /\ Record("specification.import.cancelled", f)
      /\ Say("cancelled", f, "none")
      /\ Done(p)
      /\ UNCHANGED <<written, stored, paper, released>>

\* The request dies, or the next of its calls fails.
UploadDies(p) ==
  /\ ~Idle(p)
  /\ Done(p)
  /\ UNCHANGED <<written, stored, paper, released, recorded, said>>

-----------------------------------------------------------------------------
(* Specification *)

UploadNext ==
  \/ \E p \in Loads :
       \/ Save(p) \/ RecordUpload(p) \/ Publish(p)
       \/ Cancel(p) \/ RecordCancel(p) \/ UploadDies(p)
  \/ \E p \in Loads, f \in Papers : Upload(p, f) \/ AttachPaper(p, f) \/ FindToCancel(p, f)
  \/ \E p \in Loads, f \in Papers, t \in Targets : AskToPublish(p, f, t)

UploadSpec == UploadInit /\ [][UploadNext]_uploadVars

-----------------------------------------------------------------------------
(* Properties *)

\* What is published says what the document says: it has every record of it, up to
\* the limit, and the code, name and quantity of each come from that record, in
\* whatever order they were written.  A document some of whose records have no
\* code is another matter: a labelled one would give its fields to the record
\* before (file-parser.ts: labeledPositionRowsFromText, documentResult).
PublishedIsWritten ==
  \A f \in Papers :
    LET doc == written[f]
        rows == released[f].rows
    IN  /\ released[f] # NoRelease
        /\ \A n \in Numbered(doc) : <<n, "code">> \notin doc.missing
        => /\ Len(rows) = IF Len(doc.records) < MaxRows THEN Len(doc.records) ELSE MaxRows
           /\ \A n \in DOMAIN rows : \A field \in Required : rows[n][field] = n

\* A file that was cancelled never becomes a version, not even by a request that
\* found it fit before, and what was published is recorded and is not made
\* again from the same file (publishSpecificationImport: FOR UPDATE).
CancelledStaysOut ==
  [][\A f \in Papers :
       released'[f] # released[f] =>
         /\ paper[f].status # "CANCELLED"
         /\ released[f] = NoRelease
         /\ <<"specification.import.created", f>> \in recorded']_uploadVars
=============================================================================
