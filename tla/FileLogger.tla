----------------------------- MODULE FileLogger -----------------------------
(***************************************************************************)
(* The log file (util/file_logger.cpp), which is trimmed to its last lines *)
(* when it grows too long.  The file is a sequence of chunks, as fgets     *)
(* reads it into its buffer: a long line is more than one.  Chunks are     *)
(* numbered as they are written.  The program may crash between any two    *)
(* steps of trimming, after which a new logger counts the lines again.     *)
(* Only whole lines are written; a file that does not exist is empty.      *)
(***************************************************************************)
EXTENDS Integers, Sequences

CONSTANTS
    MaxLines,       \* max_lines_
    TrimmedLines,   \* trimmed_lines_
    LineChunks,     \* chunks of a line
    OpenOutcomes,   \* whether fopen of the log succeeds
    TmpOutcomes,    \* whether fopen of tmp.tmp succeeds
    MaxChunks       \* bound: chunks written

ASSUME LinesAssumption ==
    /\ {MaxLines, TrimmedLines, MaxChunks} \subseteq Nat /\ TrimmedLines < MaxLines
    /\ LineChunks \subseteq Nat \ {0}
    /\ OpenOutcomes \cup TmpOutcomes \subseteq BOOLEAN

VARIABLES
    file,        \* the log file
    tmp,         \* tmp.tmp
    tmpThere,    \* tmp.tmp exists
    lineCount,   \* line_count_
    stamping,    \* last_timestamp_ is not 0
    trim,        \* the step of trim_file that comes next
    newCount,    \* nl
    written      \* ghost: chunks written so far

log == <<file, tmp, tmpThere, lineCount, stamping, trim, newCount, written>>
trimming == <<trim, newCount>>

LogInit ==
    /\ file = <<>> /\ tmp = <<>> /\ tmpThere = FALSE
    /\ lineCount = 0 /\ stamping = FALSE
    /\ trim = "none" /\ newCount = 0 /\ written = 0

-----------------------------------------------------------------------------
Chunks(n) == [i \in 1..n |-> written + i]

\* vprint of a line of n chunks, after a timestamp when the last is 15 minutes
\* old.  The lines are counted by their ends.
Vprint(n, stamp) ==
    /\ stamp => stamping
    /\ written + n + 1 <= MaxChunks
    /\ LET all == IF stamp THEN n + 1 ELSE n
       IN /\ file' = file \o Chunks(all)
          /\ written' = written + all
          /\ lineCount' = lineCount + (IF stamp THEN 2 ELSE 1)

NotOpened == UNCHANGED <<file, written, lineCount>>

\* print and print_debug, which trim the file when it has too many lines.
PrintLine(n, stamp, opens) ==
    /\ trim = "none"
    /\ IF opens THEN Vprint(n, stamp) ELSE NotOpened
    /\ trim' = IF lineCount' > MaxLines THEN "open" ELSE "none"
    /\ UNCHANGED <<tmp, tmpThere, stamping, newCount>>

\* print_error
PrintError(n, stamp, opens) ==
    /\ trim = "none"
    /\ IF opens THEN Vprint(n, stamp) ELSE NotOpened
    /\ UNCHANGED <<tmp, tmpThere, stamping, trimming>>

\* print_timestamp
PrintTimestamp ==
    /\ trim = "none" /\ stamping
    /\ Vprint(1, FALSE)
    /\ UNCHANGED <<tmp, tmpThere, stamping, trimming>>

\* initialize_timestamps, which prints a line
InitializeTimestamps ==
    /\ trim = "none"
    /\ stamping' = TRUE
    /\ Vprint(1, FALSE)
    /\ trim' = IF lineCount' > MaxLines THEN "open" ELSE "none"
    /\ UNCHANGED <<tmp, tmpThere, newCount>>

-----------------------------------------------------------------------------
(* trim_file *)

\* find_tail: the position of the last so many chunks.
FindTail(lines) == IF Len(file) > lines THEN Len(file) - lines ELSE 0

\* The application calls trim_file.
TrimFile ==
    /\ trim = "none"
    /\ trim' = "open"
    /\ UNCHANGED <<file, tmp, tmpThere, lineCount, stamping, newCount, written>>

\* Nothing to trim, or tmp.tmp is opened, or is not and trimming goes on.
OpenTmp(ok) ==
    /\ trim = "open"
    /\ trim' = IF FindTail(TrimmedLines) = 0 THEN "none" ELSE IF ok THEN "copy" ELSE "remove"
    /\ newCount' = 0
    /\ IF trim' = "copy" THEN tmp' = <<>> /\ tmpThere' = TRUE ELSE UNCHANGED <<tmp, tmpThere>>
    /\ UNCHANGED <<file, lineCount, stamping, written>>

\* Mutant of AfterCopy: the result of writing is not looked at.
AfterCopyAlways(ok) == "remove"
AfterCopy(ok) == IF ok THEN "remove" ELSE "none"

\* n chunks of the tail are copied; less than all of them is a failed write.
CopyTail(n) ==
    LET tail == SubSeq(file, FindTail(TrimmedLines) + 1, Len(file))
    IN /\ trim = "copy"
       /\ n <= Len(tail)
       /\ tmp' = SubSeq(tail, 1, n) /\ newCount' = n
       /\ trim' = AfterCopy(n = Len(tail))
       /\ UNCHANGED <<file, tmpThere, lineCount, stamping, written>>

RemoveLog ==
    /\ trim = "remove"
    /\ file' = <<>>
    /\ trim' = "rename"
    /\ UNCHANGED <<tmp, tmpThere, lineCount, stamping, newCount, written>>

\* rename fails when there is no tmp.tmp, which is not noticed.
RenameTmp ==
    /\ trim = "rename"
    /\ IF tmpThere THEN file' = tmp ELSE UNCHANGED file
    /\ tmp' = <<>> /\ tmpThere' = FALSE
    /\ lineCount' = newCount
    /\ trim' = "none"
    /\ UNCHANGED <<stamping, newCount, written>>

\* The program ends anywhere; the next one constructs a logger and counts.
Crash ==
    /\ lineCount' = Len(file)
    /\ stamping' = FALSE /\ trim' = "none"
    /\ UNCHANGED <<file, tmp, tmpThere, newCount, written>>

LogNext ==
    \/ \E n \in LineChunks, stamp \in BOOLEAN, opens \in OpenOutcomes :
          PrintLine(n, stamp, opens) \/ PrintError(n, stamp, opens)
    \/ PrintTimestamp \/ InitializeTimestamps
    \/ TrimFile
    \/ \E ok \in TmpOutcomes : OpenTmp(ok)
    \/ \E n \in 0..TrimmedLines : CopyTail(n)
    \/ RemoveLog \/ RenameTmp
    \/ Crash

LogSpec == LogInit /\ [][LogNext]_log

-----------------------------------------------------------------------------
(* Properties                                                               *)

LogTypeOK ==
    /\ file \in Seq(1..MaxChunks) /\ tmp \in Seq(1..MaxChunks)
    /\ lineCount \in Nat /\ newCount \in Nat /\ written \in 0..MaxChunks
    /\ tmpThere \in BOOLEAN /\ stamping \in BOOLEAN
    /\ trim \in {"none", "open", "copy", "remove", "rename"}

\* The file s ends with the last chunks written, as many as trimming is to leave.
EndsWithLast(s) ==
    LET n == IF written < TrimmedLines THEN written ELSE TrimmedLines
    IN Len(s) >= n /\ \A i \in 1..n : s[Len(s) - n + i] = written - n + i

\* The last lines written, as many as trimming is to leave, are never lost: they
\* end the log, or while trimming swaps the files, and after a crash in the
\* middle of that, tmp.tmp followed by the log (file_logger.h: "Lines to remain
\* after trimming").
TailKept == EndsWithLast(file) \/ EndsWithLast(tmp \o file)
=============================================================================
