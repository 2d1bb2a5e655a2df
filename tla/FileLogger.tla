------------------------------ MODULE FileLogger ------------------------------
(***************************************************************************)
(* The call log of internal/service/filelogger.go: handlers queue rows     *)
(* without waiting, one goroutine appends them to the JSON Lines file, the *)
(* admin page reads the file back.                                         *)
(*                                                                         *)
(* A line of the file is the row it holds, or Torn when it does not parse: *)
(* the code ignores what file.Write returns, so a full disk or a kill can  *)
(* leave a piece of a row, or a row without its newline, and the next      *)
(* append goes on in the same line.                                        *)
(***************************************************************************)
EXTENDS Naturals, Sequences, FiniteSets

CONSTANTS Users, StatusCodes,   \* what a row tells: whose call, which status
          QueueSize,            \* capacity of logChan; 1000 in the code
          Limit,                \* rows of one answer; 500 in the code
          MaxCalls, MaxFaults,  \* bounds: calls to log; failed or cut writes
          NoEntry, Torn, AnyUser    \* nothing in hand; a broken line; an empty filter field

Entry == [id : 1..MaxCalls, user : Users, status : StatusCodes]

ASSUME LogAssumption == /\ QueueSize \in Nat \ {0} /\ Limit \in Nat \ {0}
                        /\ MaxCalls \in Nat /\ MaxFaults \in Nat
                        /\ StatusCodes \subseteq Nat
                        /\ NoEntry \notin Entry /\ Torn \notin Entry

VARIABLES logChan, writing,     \* the queued rows; the one writeLoop has taken
          lines, terminated,    \* the file; whether its last line has its newline
          calls,                \* history: calls logged so far, which number the rows
          settled,              \* history: rows the writer is done with
          failed, cut           \* history: writes that left nothing, and only a part

logVars == <<logChan, writing, lines, terminated, calls, settled, failed, cut>>

LogTypeOK == /\ logChan \in Seq(Entry) /\ Len(logChan) <= QueueSize
             /\ writing \in Entry \cup {NoEntry}
             /\ lines \in Seq(Entry \cup {Torn})
             /\ terminated \in BOOLEAN
             /\ {calls, settled} \subseteq 0..MaxCalls
             /\ {failed, cut} \subseteq 0..MaxFaults

LogInit == /\ logChan = <<>> /\ writing = NoEntry
           /\ lines = <<>> /\ terminated = TRUE
           /\ calls = 0 /\ settled = 0 /\ failed = 0 /\ cut = 0

-----------------------------------------------------------------------------
(* Writing. *)

NeverFull(user, status) ==      \* mutated Log: the queue has no limit
    /\ calls < MaxCalls
    /\ calls' = calls + 1
    /\ logChan' = Append(logChan, [id |-> calls', user |-> user, status |-> status])
    /\ UNCHANGED <<writing, lines, terminated, settled, failed, cut>>

(* A row that finds the queue full is dropped; the handler never waits. *)
Log(user, status) ==
    /\ calls < MaxCalls
    /\ calls' = calls + 1
    /\ logChan' = IF Len(logChan) < QueueSize
                  THEN Append(logChan, [id |-> calls', user |-> user, status |-> status])
                  ELSE logChan
    /\ UNCHANGED <<writing, lines, terminated, settled, failed, cut>>

(* writeLoop takes the next row. *)
TakeEntry == /\ writing = NoEntry /\ logChan # <<>>
             /\ writing' = Head(logChan)
             /\ logChan' = Tail(logChan)
             /\ UNCHANGED <<lines, terminated, calls, settled, failed, cut>>

QueuesAgain ==          \* mutated WriteFails: a failed row is queued for another try
    /\ writing # NoEntry
    /\ writing' = NoEntry
    /\ logChan' = IF Len(logChan) < QueueSize THEN Append(logChan, writing) ELSE logChan
    /\ UNCHANGED <<lines, terminated, calls, settled, failed, cut>>

(* writeEntry gives the row up: the file does not open, or takes no byte. *)
WriteFails == /\ writing # NoEntry
              /\ failed + cut < MaxFaults
              /\ writing' = NoEntry
              /\ settled' = settled + 1 /\ failed' = failed + 1
              /\ UNCHANGED <<logChan, lines, terminated, calls, cut>>

StartsOver(line) == <<line>>    \* mutated Appended: the file is opened without O_APPEND

(* What follows a line without its newline becomes part of that line. *)
Appended(line) == IF terminated THEN Append(lines, line)
                           ELSE [lines EXCEPT ![Len(lines)] = Torn]

ForgetsNewline(line, whole) ==  \* mutated Put: no row gets its newline
    /\ writing # NoEntry
    /\ lines' = Appended(line) /\ terminated' = FALSE
    /\ writing' = NoEntry /\ settled' = settled + 1
    /\ UNCHANGED <<logChan, calls, failed>>

Put(line, whole) ==
    /\ writing # NoEntry
    /\ lines' = Appended(line) /\ terminated' = whole
    /\ writing' = NoEntry /\ settled' = settled + 1
    /\ UNCHANGED <<logChan, calls, failed>>

WriteWhole == Put(writing, TRUE) /\ UNCHANGED cut

(* The write stops inside the row, or right before the newline. *)
WriteCut == /\ failed + cut < MaxFaults
            /\ \E line \in {writing, Torn} : Put(line, FALSE)
            /\ cut' = cut + 1

FreshFile == /\ logChan' = <<>> /\ writing' = NoEntry     \* mutated LogRestart: the file
             /\ lines' = <<>> /\ terminated' = TRUE        \* is truncated at the start
             /\ UNCHANGED <<calls, settled, failed, cut>>

(* The process ends and comes back.  Nobody calls Close: the queue is lost. *)
LogRestart == /\ logChan' = <<>> /\ writing' = NoEntry
              /\ UNCHANGED <<lines, terminated, calls, settled, failed, cut>>

Writer == TakeEntry \/ WriteWhole \/ WriteCut \/ WriteFails

-----------------------------------------------------------------------------
(* Reading. *)

(* A filter's status is "2xx", "4xx", "5xx" or one code: a set of codes either *)
(* way, as is the empty status, which matches all.                             *)
StatusFilters == {0..999, 200..299, 400..499, 500..599} \cup {{code} : code \in StatusCodes}

Filters == [user : Users \cup {AnyUser}, status : StatusFilters]

rowMatches(row, filter) == /\ filter.user \in {AnyUser, row.user}
                           /\ row.status \in filter.status

(* The elements of s that are in S, in their order: SelectSeq, written out for *)
(* the proofs.                                                                 *)
Only(s, S) ==
    LET kept[n \in 0..Len(s)] == IF n = 0 THEN <<>>
                                 ELSE IF s[n] \in S THEN Append(kept[n - 1], s[n])
                                 ELSE kept[n - 1]
    IN  kept[Len(s)]

(* Lines that do not parse are passed over. *)
Rows == Only(lines, Entry)

Matching(filter) == {row \in Entry : rowMatches(row, filter)}

Newest(s) == SubSeq(s, IF Len(s) > Limit THEN Len(s) - Limit + 1 ELSE 1, Len(s))

Backwards(s) == [i \in DOMAIN s |-> s[Len(s) + 1 - i]]

CutsFirst(filter, n) ==     \* mutated Query: the limit is applied before the filter
    Backwards(Only(Newest(Only(SubSeq(lines, 1, n), Entry)), Matching(filter)))

(* One pass over the first n lines: all there are when the reader gets to the end  *)
(* of the file, or fewer if a read fails or the file does not open, which the page *)
(* is not told.                                                                    *)
Query(filter, n) == Backwards(Newest(Only(SubSeq(lines, 1, n), Matching(filter))))

-----------------------------------------------------------------------------
(* Properties. *)

(* A query returns exactly the rows it reads that match and have fewer than *)
(* Limit newer matches, the newest call first, however far it gets in the   *)
(* file: FileLogger.Query.                                                  *)
NewestFirst ==
    \A filter \in Filters, n \in 0..Len(lines) :
            LET matching == {row \in Entry : /\ rowMatches(row, filter)
                                             /\ \E i \in 1..n : lines[i] = row}
                answer == Query(filter, n)
            IN  /\ {answer[i] : i \in DOMAIN answer} =
                   {row \in matching : Cardinality({m \in matching : m.id > row.id}) < Limit}
                /\ \A i, j \in DOMAIN answer : i < j => answer[i].id > answer[j].id

(* What a broken write can cost is bounded: each write that fails loses one  *)
(* row, each write that is cut at most two, its own and the one that runs    *)
(* into it.  Every other row the writer was done with can be read back.      *)
DamageBounded == settled <= Len(Rows) + failed + 2 * cut

(* The rows that can be read only grow by newer rows, or lose the newest one *)
(* while it lacks its newline: across failures, cuts and restarts.           *)
Readable == INSTANCE RowLog WITH rows <- Rows, fragile <- ~terminated /\ lines[Len(lines)] # Torn
ImplementsRowLog == Readable!RowLogSpec

(* Every queued row leaves the queue and the writer's hands, written or given *)
(* up, unless the process ends: the writer outlives every failed write.       *)
Pending(n) == \/ writing # NoEntry /\ writing.id = n
              \/ \E i \in DOMAIN logChan : logChan[i].id = n
RowsSettle == \A n \in 1..MaxCalls : []<>~Pending(n)
=============================================================================
