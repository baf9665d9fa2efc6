---------------------------- MODULE LogfileIngest ----------------------------
(* The logfile-ingest factory (provider/src/factory/logfile_ingest/mod.rs):   *)
(* a timer runs it to mirror the log files of a host into series of the pond. *)
(* The logger goes on meanwhile.  It appends to the active file in pieces     *)
(* that need not end at a line, and rotates it: the file is renamed, and a    *)
(* new active file appears with the next write or before.  A run sees the     *)
(* directory in two scans, each file again when it opens it, and writes in    *)
(* one transaction.                                                           *)
EXTENDS Integers, Sequences, FiniteSets, FiniteSetsExt

CONSTANTS Chars,          \* bytes other than the newline
          Stamped,        \* lines in which the timestamp field is found
          BlockSize,      \* bytes of one block of the hash tree (BLOCK_SIZE)
          MaxBytes,       \* bound on the bytes the logger writes
          MaxLength,      \* bound on the bytes of one file
          MaxRotations    \* bound on rotations

ASSUME BlockSizePositive == BlockSize \in Nat \ {0}

VARIABLES host,      \* content of every log file of the host
          rotations, \* rotations so far; archived files are 1, 2, ...
          pond,      \* the series of the pond: for each file the versions written
          aligned,   \* is timestamp_field configured
          run,       \* the run in progress
          blind      \* has a check accepted a file other than the one a series follows

vars == <<host, rotations, pond, aligned, run, blind>>

Active == 0
NewLine == 0
NoSize == -1
Idle == [pc |-> "idle", archived |-> {}, size |-> NoSize, suffix |-> <<>>, exact |-> TRUE,
         work |-> <<>>, rotated |-> FALSE]

Files == 0..MaxRotations
(* A series is read as its versions one after the other.                      *)
Content(series) ==
    LET read[i \in 0..Len(series)] == IF i = 0 THEN <<>> ELSE read[i - 1] \o series[i]
    IN  read[Len(series)]
Prefix(s, n) == SubSeq(s, 1, n)
Starts(t, s) == Len(t) <= Len(s) /\ Prefix(s, Len(t)) = t
With(f, k, v) == [n \in DOMAIN f \cup {k} |-> IF n = k THEN v ELSE f[n]]
Without(f, k) == [n \in DOMAIN f \ {k} |-> f[n]]
Bytes(f) == LET length(n) == Len(f[n]) IN MapThenSumSet(length, DOMAIN f)

Init ==
    /\ host = With(<<>>, Active, <<>>)
    /\ rotations = 0
    /\ pond = <<>>
    /\ aligned \in BOOLEAN
    /\ run = Idle
    /\ blind = FALSE

(* ---- the logger --------------------------------------------------------- *)
Write(byte) ==
    /\ Active \in DOMAIN host /\ Bytes(host) < MaxBytes /\ Len(host[Active]) < MaxLength
    /\ host' = [host EXCEPT ![Active] = Append(@, byte)]
    /\ UNCHANGED <<rotations, pond, aligned, run, blind>>

(* Rotations are rarer than runs are long: at most one falls into a run.      *)
Rotate ==
    /\ Active \in DOMAIN host /\ host[Active] # <<>> /\ rotations < MaxRotations
    /\ host' = With(Without(host, Active), rotations + 1, host[Active])
    /\ rotations' = rotations + 1
    /\ ~run.rotated
    /\ run' = [run EXCEPT !.rotated = run.pc # "idle"]
    /\ UNCHANGED <<pond, aligned, blind>>

CreateActive ==
    /\ Active \notin DOMAIN host
    /\ host' = With(host, Active, <<>>)
    /\ UNCHANGED <<rotations, pond, aligned, run, blind>>

(* ---- what a run stores --------------------------------------------------- *)
CompleteLines(s) == Prefix(s, Max({0} \cup {i \in 1..Len(s) : s[i] = NewLine}))

IngestibleSlice(s, final) == IF final \/ ~aligned THEN s ELSE CompleteLines(s)

(* scan_temporal_bounds: a version needs one line with a timestamp, if that   *)
(* field is configured; without one the write fails (poll_shutdown).          *)
NewLines(s) == {i \in 1..Len(s) : s[i] = NewLine}
Lines(s) ==
    LET end(i) == Min({j \in NewLines(s) \cup {Len(s) + 1} : i < j})
    IN  {SubSeq(s, i + 1, end(i) - 1) : i \in {0} \cup NewLines(s)}

Bounded(slice) == aligned /\ slice # <<>> => Lines(slice) \cap Stamped # {}

Appended(work, name, slice) ==
    Append(IF name \in DOMAIN work THEN work[name] ELSE <<>>, slice)

AppendVersion(work, name, slice) ==
    IF slice = <<>> THEN work ELSE With(work, name, Appended(work, name, slice))

(* verify_prefix_matches: hashing resumes from the stored frontier, so that   *)
(* only the bytes after the last whole block are read and compared.  The read *)
(* fails when the file is too short for them.                                 *)
\* Mutant: the check is left out.
VerifyNothing(file, tracked) == "matches"

VerifyPrefix(file, tracked) ==
    LET n == Len(tracked)
        from == BlockSize * (n \div BlockSize) + 1
    IN  IF from > n THEN "matches"
        ELSE IF Len(file) < n THEN "error"
        ELSE IF SubSeq(file, from, n) = SubSeq(tracked, from, n) THEN "matches" ELSE "differs"

(* ---- a run --------------------------------------------------------------- *)
RunStep(next) ==
    /\ run' = next
    /\ UNCHANGED <<host, rotations, pond, aligned, blind>>

(* An error aborts the transaction; the timer tries again.                    *)
Fail == RunStep(Idle)

ScanArchived ==
    /\ run.pc = "idle"
    /\ RunStep([Idle EXCEPT !.pc = "scan", !.archived = DOMAIN host \ {Active}, !.work = pond])

ScanActive ==
    /\ run.pc = "scan"
    /\ RunStep([run EXCEPT !.pc = "detect",
                           !.size = IF Active \in DOMAIN host THEN Len(host[Active]) ELSE NoSize])

(* Has the active file been replaced since the pond followed it?              *)
\* Mutant: a file that has grown is taken for the same file.
MightBeRotatedByLength(tracked) ==
    IF run.size # Len(tracked) THEN IF run.size < Len(tracked) THEN "yes" ELSE "no"
    ELSE IF Active \notin DOMAIN host \/ Len(host[Active]) < Len(tracked) THEN "error"
    ELSE IF Prefix(host[Active], Len(tracked)) = tracked THEN "no" ELSE "yes"

MightBeRotated(tracked) ==
    IF run.size < Len(tracked) THEN "yes"
    ELSE IF Active \notin DOMAIN host THEN "error"
    ELSE IF run.size = Len(tracked)
    THEN IF Len(host[Active]) < Len(tracked) THEN "error"
         ELSE IF Prefix(host[Active], Len(tracked)) = tracked THEN "no" ELSE "yes"
    ELSE CASE VerifyPrefix(host[Active], tracked) = "matches" -> "no"
           [] VerifyPrefix(host[Active], tracked) = "differs" -> "yes"
           [] OTHER -> "error"

\* Mutant: a file of just the tracked length is passed over.
RotatedLonger(tracked) ==
    {a \in run.archived \ DOMAIN run.work :
        Len(host[a]) > Len(tracked) /\ Starts(tracked, host[a])}

FindRotated(tracked) == {a \in run.archived \ DOMAIN run.work : Starts(tracked, host[a])}

(* The bytes missed are put behind the active series, which then takes the    *)
(* archived name with all its versions.                                       *)
Missed(a) == SubSeq(host[a], Len(Content(run.work[Active])) + 1, Len(host[a]))

RenameRotated(a) ==
    LET whole == AppendVersion(run.work, Active, Missed(a))
    IN  With(Without(whole, Active), a, whole[Active])

DetectRotation ==
    /\ run.pc = "detect"
    /\ LET next == [run EXCEPT !.pc = "archived"]
           verdict == IF run.size = NoSize \/ Active \notin DOMAIN run.work THEN "no"
                      ELSE MightBeRotated(Content(run.work[Active]))
       IN  \/ verdict = "error" /\ Fail
           \/ verdict = "no" /\ RunStep(next)
           \/ /\ verdict = "yes"
              /\ LET found == FindRotated(Content(run.work[Active]))
                 IN  IF found = {} THEN RunStep(next)
                     ELSE \E a \in found :
                            IF Bounded(Missed(a)) THEN RunStep([next EXCEPT !.work = RenameRotated(a)])
                            ELSE Fail

(* Every archived file the pond does not know is taken over whole; one it     *)
(* knows must not have changed.                                               *)
IngestArchived(known) ==
    LET new == {a \in run.archived \ DOMAIN known : IngestibleSlice(host[a], TRUE) # <<>>}
    IN  [n \in DOMAIN run.work \cup new |->
            IF n \in new THEN Appended(run.work, n, IngestibleSlice(host[n], TRUE))
            ELSE run.work[n]]

\* Mutant: the archived files are judged by the pond as it was before the rename.
StaleArchived == RunStep([run EXCEPT !.pc = "active", !.work = IngestArchived(pond)])

StoreArchived == RunStep([run EXCEPT !.pc = "active", !.work = IngestArchived(run.work)])

ProcessArchived ==
    /\ run.pc = "archived"
    /\ IF /\ \A a \in run.archived \cap DOMAIN run.work : Content(run.work[a]) = host[a]
          /\ \A a \in run.archived \ DOMAIN run.work : Bounded(IngestibleSlice(host[a], TRUE))
       THEN StoreArchived ELSE Fail

(* The active file is read again.  Of a known one exactly the bytes up to the *)
(* scanned size are read, and the prefix is verified after that.              *)
ProcessActive ==
    /\ run.pc = "active"
    /\ LET done == [run EXCEPT !.pc = "commit"]
           present == Active \in DOMAIN host
           tracked == Content(run.work[Active])
       IN  IF run.size = NoSize THEN RunStep(done)
           ELSE IF Active \notin DOMAIN run.work
           THEN IF present /\ Bounded(IngestibleSlice(host[Active], FALSE))
                THEN RunStep([done EXCEPT !.work =
                                AppendVersion(@, Active, IngestibleSlice(host[Active], FALSE))])
                ELSE Fail
           ELSE IF run.size <= Len(tracked) THEN RunStep(done)
           ELSE IF ~present THEN Fail
           ELSE IF Len(host[Active]) < run.size THEN Fail
           ELSE RunStep([run EXCEPT !.pc = "verify",
                                    !.suffix = SubSeq(host[Active], Len(tracked) + 1, run.size),
                                    !.exact = Prefix(host[Active], Len(tracked)) = tracked])

VerifyAppend ==
    /\ run.pc = "verify"
    /\ LET tracked == Content(run.work[Active])
           slice == IngestibleSlice(run.suffix, FALSE)
           verdict == IF Active \in DOMAIN host THEN VerifyPrefix(host[Active], tracked) ELSE "error"
       IN  IF verdict # "matches" \/ ~Bounded(slice) THEN Fail
           ELSE /\ run' = [run EXCEPT !.pc = "commit", !.suffix = <<>>, !.exact = TRUE,
                                      !.work = AppendVersion(@, Active, slice)]
                /\ blind' = (blind \/ ~run.exact)
                /\ UNCHANGED <<host, rotations, pond, aligned>>

CommitRun ==
    /\ run.pc = "commit"
    /\ pond' = run.work /\ run' = Idle
    /\ UNCHANGED <<host, rotations, aligned, blind>>

Ingest ==
    \/ ScanArchived \/ ScanActive \/ DetectRotation \/ ProcessArchived
    \/ ProcessActive \/ VerifyAppend \/ CommitRun

Next ==
    \/ \E byte \in Chars \cup {NewLine} : Write(byte)
    \/ Rotate \/ CreateActive
    \/ Ingest

Spec == Init /\ [][Next]_vars

(* The timer starts a run again and again, and a run goes on until it ends.   *)
FairSpec == Spec /\ WF_vars(Ingest)

(* ---- properties ---------------------------------------------------------- *)
(* An active series follows a file that is gone: its file is not the active   *)
(* one any more, and the archived one is in the pond under its own name.      *)
Orphaned ==
    /\ Active \in DOMAIN pond
    /\ ~ (Active \in DOMAIN host /\ Starts(Content(pond[Active]), host[Active]))
    /\ \A a \in DOMAIN host \ DOMAIN pond : ~ Starts(Content(pond[Active]), host[a])

(* A version ends with a whole line. *)
EndsLine(version) == version[Len(version)] = NewLine

(* "keeps every stored version a whole number of records" (ingestible_slice): *)
(* with timestamps configured only the last version of an archived file may   *)
(* end within a line.                                                         *)
WholeRecords ==
    aligned => \A n \in DOMAIN pond : \A i \in DOMAIN pond[n] :
        (n = Active \/ i < Len(pond[n])) => EndsLine(pond[n][i])

(* The pond mirrors the host in whole records: an archived series is the      *)
(* archived file, and the active series is how some file of the host begins   *)
(* (process_archived, ingest_append and the rename of a rotated series agree).*)
Faithful ==
    /\ WholeRecords
    /\ ~blind =>
        /\ \A a \in DOMAIN pond \ {Active} : Content(pond[a]) = host[a]
        /\ Active \in DOMAIN pond => \E n \in DOMAIN host : Starts(Content(pond[Active]), host[n])

(* The bytes of one file are put behind those of another only where           *)
(* verify_prefix_matches skips a whole block of the hash tree, or if the      *)
(* active file is replaced between the read and the check by one that begins  *)
(* as the series does.                                                        *)
BlindOnlyPastBlock ==
    [][~blind /\ blind'
       => LET tracked == Content(run.work[Active])
          IN  \/ Len(tracked) >= BlockSize
              \/ run.rotated /\ Starts(tracked, host[Active])]_vars

(* A rotated file is missed only by a run that found no active file           *)
(* (enumerate_host_files between the rename and the first write).             *)
OrphanedOnlyInGap == [][~blind /\ ~Orphaned /\ Orphaned' => run.size = NoSize]_vars

CaughtUp ==
    /\ \A a \in DOMAIN host \ {Active} : a \in DOMAIN pond /\ Content(pond[a]) = host[a]
    /\ (IF Active \in DOMAIN pond THEN Content(pond[Active]) ELSE <<>>)
       = (IF Active \in DOMAIN host THEN IngestibleSlice(host[Active], FALSE) ELSE <<>>)

(* A piece that a run would store has no line with a timestamp: a file the    *)
(* pond lacks, or what such a file or the active one has behind the bytes     *)
(* stored of the active series.                                               *)
Unstamped ==
    LET tracked == IF Active \in DOMAIN pond THEN Content(pond[Active]) ELSE <<>>
        missing == {n \in DOMAIN host : n = Active \/ n \notin DOMAIN pond}
        held(n) == IF n = Active \/ Starts(tracked, host[n]) THEN {0, Len(tracked)} ELSE {0}
    IN  \E n \in missing : \E k \in held(n) :
            ~Bounded(IngestibleSlice(SubSeq(host[n], k + 1, Len(host[n])), n # Active))

(* Once the logger rests every line that is complete, and every archived file *)
(* whole, comes into the pond: failed runs, withheld pieces and rotations at  *)
(* any moment are caught up with.  A piece without a timestamp is the one     *)
(* thing that keeps failing the run, and with it what the other files have.   *)
EventuallyMirrored == <>[](CaughtUp \/ Orphaned \/ blind \/ Unstamped)
=============================================================================
