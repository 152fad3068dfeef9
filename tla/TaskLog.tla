------------------------------ MODULE TaskLog ------------------------------
(***************************************************************************)
(* The log of one task and the admin page that follows it: the two         *)
(* backends of pyxxl/logger, the loop that deletes old logs, and /log of   *)
(* pyxxl/protocol/server.py.  A process has one backend; here the task     *)
(* writes to both and each has a reader, so that they can be compared.     *)
(*                                                                         *)
(* Granularity.  The disk backend appends only and reads up to the end of  *)
(* the file or of the page, so what it answers is decided in one moment.   *)
(* The Redis backend makes two calls, and the task may write between them. *)
(* A line is its number.                                                   *)
(***************************************************************************)
EXTENDS Integers, SequencesExt

CONSTANTS
    MaxLines,  \* bound: lines the task writes
    MaxFrom,   \* bound: the last line number a reader asks for
    Page,      \* log_tail_lines
    Kept       \* max_lines of RedisHandler

ASSUME ConstantsAssumption ==
    {MaxLines, MaxFrom} \subseteq Nat /\ {Page, Kept} \subseteq Nat \ {0}

VARIABLES
    lines,     \* lines the task has written
    finished,  \* the task is over
    list,      \* the Redis list
    llen,      \* its length as the reader's call has seen it, or NotAsked
    old,       \* the retention has passed since the last line
    cleaner,   \* expired_loop: asleep, holding a list of old files, or died
    damaged,   \* backends that lost something: the file unlinked, the list
               \* expired, a Redis call failed
    from,      \* reader -> fromLineNum of its next request
    shown,     \* reader -> the lines it has been sent, one after the other
    ended,     \* reader -> isEnd of the last answer
    vain,      \* reader -> answers without a line
    early      \* readers that made a request before the task was over

logVars    == <<lines, finished, list, old, cleaner>>
readerVars == <<from, shown, ended, vain, early>>
vars       == <<logVars, llen, damaged, readerVars>>

Backends == {"disk", "redis"}

NotAsked == -1

Init ==
    /\ lines = 0
    /\ finished = FALSE
    /\ list = <<>>
    /\ llen = NotAsked
    /\ old = FALSE
    /\ cleaner = "asleep"
    /\ damaged = {}
    /\ from = [b \in Backends |-> 1]
    /\ shown = [b \in Backends |-> <<>>]
    /\ ended = [b \in Backends |-> FALSE]
    /\ vain = [b \in Backends |-> 0]
    /\ early = {}

FileExists == lines > 0 /\ "disk" \notin damaged

-----------------------------------------------------------------------------
(* The task and the passing of time *)

\* Mutant: no LTRIM.
Untrimmed(s) == s

\* LTRIM key -max_lines -1
Trimmed(s) == IF Len(s) > Kept THEN Tail(s) ELSE s

\* One record: FileHandler appends it, RedisHandler pushes, trims and renews
\* the expiry in one transaction, which may fail.  A file that was unlinked
\* stays open and takes the line with it.
Write ==
    /\ ~finished
    /\ lines < MaxLines
    /\ lines' = lines + 1
    /\ old' = FALSE
    /\ \/ list' = Trimmed(Append(list, lines + 1)) /\ UNCHANGED damaged
       \/ UNCHANGED list /\ damaged' = damaged \union {"redis"}
    /\ UNCHANGED <<finished, cleaner, llen, readerVars>>

TaskEnds ==
    /\ ~finished
    /\ finished' = TRUE
    /\ UNCHANGED <<lines, list, old, cleaner, llen, damaged, readerVars>>

RetentionPasses ==
    /\ lines > 0
    /\ old' = TRUE
    /\ UNCHANGED <<lines, finished, list, cleaner, llen, damaged, readerVars>>

RedisExpires ==
    /\ old
    /\ list # <<>>
    /\ list' = <<>>
    /\ damaged' = damaged \union {"redis"}
    /\ UNCHANGED <<lines, finished, old, cleaner, llen, readerVars>>

-----------------------------------------------------------------------------
(* expired_loop over expired_once *)

\* Mutant: the comparison with the time of expiry is turned round.
ScanExpiredInverted ==
    /\ cleaner = "asleep"
    /\ FileExists /\ ~old
    /\ cleaner' = "holding"
    /\ UNCHANGED <<lines, finished, list, old, llen, damaged, readerVars>>

\* A thread lists the files that are old; one that is not is left alone.
ScanExpired ==
    /\ cleaner = "asleep"
    /\ FileExists /\ old
    /\ cleaner' = "holding"
    /\ UNCHANGED <<lines, finished, list, old, llen, damaged, readerVars>>

\* The listed file goes, whatever has been written to it since; an exception
\* other than a cancellation ends the loop for good.
UnlinkExpired ==
    /\ cleaner = "holding"
    /\ \/ cleaner' = "asleep" /\ damaged' = damaged \union {"disk"}
       \/ cleaner' = "died" /\ UNCHANGED damaged
    /\ UNCHANGED <<lines, finished, list, old, llen, readerVars>>

-----------------------------------------------------------------------------
(* /log: each reader goes on behind the toLineNum of its last answer. *)

Requested(b) == early' = IF finished THEN early ELSE early \union {b}

Answer(b, sent, toLineNum, isEnd) ==
    /\ from' = [from EXCEPT ![b] = toLineNum + 1]
    /\ shown' = [shown EXCEPT ![b] = @ \o sent]
    /\ ended' = [ended EXCEPT ![b] = isEnd]
    /\ vain' = [vain EXCEPT ![b] = IF sent = <<>> THEN @ + 1 ELSE @]

PageEnd(b) == from[b] - 1 + Page

\* Lines first..last of a log, as far as it goes.
Slice(log, first, last) ==
    SubSeq(log, first, IF last < Len(log) THEN last ELSE Len(log))

\* Mutant: toLineNum is the end of the page.
DiskToLineOfPage(sent) == PageEnd("disk")

\* to_line_num follows the lines sent and starts at fromLineNum.
DiskToLine(sent) == IF sent = <<>> THEN from["disk"] ELSE Last(sent)

\* A loop over the first PageEnd lines ends early at the end of the file; a
\* file that is missing ends nothing.
DiskAnswers ==
    LET file == [n \in 1..(IF FileExists THEN lines ELSE 0) |-> n]
        sent == Slice(file, from["disk"], PageEnd("disk"))
    IN
    /\ from["disk"] <= MaxFrom
    /\ Requested("disk")
    /\ Answer("disk", sent, DiskToLine(sent), FileExists /\ lines < PageEnd("disk"))
    /\ UNCHANGED <<logVars, llen, damaged>>

\* LLEN; a failing call is answered as a log that does not exist.
RedisCounts ==
    /\ from["redis"] <= MaxFrom
    /\ llen = NotAsked
    /\ Requested("redis")
    /\ \/ llen' = Len(list) /\ UNCHANGED <<damaged, from, shown, ended, vain>>
       \/ /\ Answer("redis", <<>>, from["redis"], TRUE)
          /\ damaged' = damaged \union {"redis"}
          /\ UNCHANGED llen
    /\ UNCHANGED logVars

\* Mutant: the end of LRANGE is taken for exclusive.
LRangeToInclusive == Slice(list, from["redis"], PageEnd("redis") + 1)

\* LRANGE key from_line to_line-1
LRange == Slice(list, from["redis"], PageEnd("redis"))

\* Mutant: the end is seen one line too early.
RedisAtEndEarly == llen <= PageEnd("redis") + 1

RedisAtEnd == llen <= PageEnd("redis")

\* LRANGE, if LLEN left something to read: toLineNum is the end of the page,
\* however many lines there were, and when the call failed as well.
RedisAnswers ==
    /\ llen # NotAsked
    /\ llen' = NotAsked
    /\ IF from["redis"] > llen
       THEN Answer("redis", <<>>, from["redis"], RedisAtEnd) /\ UNCHANGED damaged
       ELSE \/ Answer("redis", LRange, PageEnd("redis"), RedisAtEnd) /\ UNCHANGED damaged
            \/ /\ Answer("redis", <<>>, PageEnd("redis"), RedisAtEnd)
               /\ damaged' = damaged \union {"redis"}
    /\ UNCHANGED <<logVars, early>>

-----------------------------------------------------------------------------
Next ==
    \/ Write \/ TaskEnds \/ RetentionPasses
    \/ RedisExpires \/ ScanExpired \/ UnlinkExpired
    \/ DiskAnswers \/ RedisCounts \/ RedisAnswers

Spec == Init /\ [][Next]_vars

\* The loop of the cleaner wakes every log_clean_interval seconds.
FairSpec == Spec /\ WF_vars(ScanExpired) /\ WF_vars(UnlinkExpired)

-----------------------------------------------------------------------------
(* Properties *)

\* Every variable stays within its type, and the Redis list within max_lines.
TypeOK ==
    /\ lines \in 0..MaxLines
    /\ {finished, old} \subseteq BOOLEAN
    /\ list \in Seq(1..MaxLines) /\ Len(list) <= Kept
    /\ llen \in {NotAsked} \union 0..Kept
    /\ cleaner \in {"asleep", "holding", "died"}
    /\ damaged \subseteq Backends /\ early \subseteq Backends
    /\ from \in [Backends -> Nat \ {0}]
    /\ shown \in [Backends -> Seq(1..MaxLines)]
    /\ ended \in [Backends -> BOOLEAN]
    /\ vain \in [Backends -> Nat]

\* A reader is sent lines in their order, none of them twice, although the
\* Redis list is trimmed, and so renumbered, between requests and within one.
NeverTwice ==
    \A b \in Backends : \A i, j \in DOMAIN shown[b] : i < j => shown[b][i] < shown[b][j]

\* Asking from the first line once the task is over, a reader that has come to
\* the end has been sent the whole log: on both backends, where a page ends
\* exactly with the log as well.  (A Redis log that was trimmed is not whole.)
CompleteLogIsReadWhole ==
    \A b \in Backends :
        (ended[b] /\ b \notin early \union damaged /\ (b = "redis" => lines <= Kept))
            => Len(shown[b]) = lines

\* A reader of the disk backend passes over one line with every answer that has
\* none, and over no other: toLineNum of such an answer is a line not yet sent.
DiskSkipsOnePerEmptyAnswer ==
    from["disk"] - 1 = Len(shown["disk"]) + vain["disk"]

\* The file of a task that is over goes some time after its retention, unless
\* an exception has ended the loop.
OldLogGoes ==
    finished /\ old /\ lines > 0 ~> ~FileExists \/ cleaner = "died"
=============================================================================
