--------------------------- MODULE JournalHistory ---------------------------
(***************************************************************************)
(* queryHistory: the journal file is read backwards in chunks, while the   *)
(* journal goes on appending, and cut into lines across chunk boundaries.  *)
(* The file is a sequence of symbols; an entry is the line <<n, End>>.   *)
(***************************************************************************)
EXTENDS Integers, SequencesExt

CONSTANTS Files,        \* the journals a query may find
          Chunks,       \* HISTORY_REVERSE_READ_CHUNK_BYTES
          Limits,       \* clamped limits of a query
          ScanLimits,   \* historyScanMaxEntries
          Wanted,       \* entries the query matches
          MayRunOut     \* historyScanMaxDurationMs may elapse

Newline == 0
End == -1
Entry(n) == <<n, End>>

HistoryAssumption ==
  /\ Files \subseteq Seq(Int) /\ Chunks \subseteq Nat \ {0} /\ Limits \subseteq Nat \ {0}
  /\ ScanLimits \subseteq Nat /\ MayRunOut \in BOOLEAN

VARIABLES bytes,      \* the journal file
          size,       \* its size when the scan began
          query,      \* chunk size, limit and scan limit
          position,   \* everything from here on has been read
          leftover,   \* the start of the oldest chunk, up to its first newline
          scan,       \* entries, lines seen, truncated, whether to stop and why
          at

vars == <<bytes, size, query, position, leftover, scan, at>>

Init ==
  /\ bytes \in Files /\ size = 0 /\ position = 0 /\ leftover = <<>>
  /\ query \in [chunk : Chunks, limit : Limits, lines : ScanLimits]
  /\ scan = [entries |-> <<>>, lines |-> 0, truncated |-> FALSE, stop |-> FALSE, late |-> FALSE]
  /\ at = "open"

Parses(line) == Len(line) = 2 /\ line = Entry(line[1])
ToHistoryEntry(line) == line[1]
Matches(line) == Parses(line) /\ ToHistoryEntry(line) \in Wanted

Stopped(s) == [s EXCEPT !.truncated = TRUE, !.stop = TRUE]

HasRoom(s) == Len(s.entries) < query.limit

\* The callback of the scan, for one line that is not blank.
OnLine(s, line) ==
  LET seen == [s EXCEPT !.lines = @ + 1] IN
  IF s.stop \/ line = <<>> THEN s
  ELSE IF seen.lines > query.lines THEN Stopped(seen)
  ELSE IF ~Matches(line) THEN seen
  ELSE IF HasRoom(s) THEN [seen EXCEPT !.entries = Append(@, ToHistoryEntry(line))]
  ELSE Stopped(seen)

Newlines(s) == {i \in 1 .. Len(s) : s[i] = Newline}
\* What the newlines of s separate, last piece first: the loop over a chunk from its end.
Pieces[s \in Seq(Int)] ==
  IF Newlines(s) = {} THEN <<s>>
  ELSE LET cut == Max(Newlines(s))
       IN <<SubSeq(s, cut + 1, Len(s))>> \o Pieces[SubSeq(s, 1, cut - 1)]

OnLines(s, lines) == FoldLeft(OnLine, s, lines)
-----------------------------------------------------------------------------
\* open and stat: what is appended from now on is not read.
OpenScan ==
  /\ at = "open" /\ at' = "reading"
  /\ size' = Len(bytes) /\ position' = Len(bytes)
  /\ UNCHANGED <<bytes, query, leftover, scan>>

ForgottenRest(pieces) == <<>>                     \* fault: a line cut by a chunk is lost
\* The oldest piece of a chunk may begin in the chunk before it.
Rest(pieces) == Last(pieces)

\* One read comes back: the lines that are complete by now are handed over.
ReadChunk ==
  /\ at = "reading" /\ position > 0 /\ ~scan.stop
  /\ LET from == IF position > query.chunk THEN position - query.chunk ELSE 0
         pieces == Pieces[SubSeq(bytes, from + 1, position) \o leftover]
     IN /\ position' = from
        /\ scan' = OnLines(scan, Front(pieces))
        /\ leftover' = Rest(pieces)
  /\ UNCHANGED <<bytes, size, query, at>>

\* The time allowed is over when the next line is looked at.
RunOut ==
  /\ MayRunOut /\ at = "reading" /\ ~scan.stop /\ (position > 0 \/ leftover # <<>>)
  /\ scan' = [Stopped(scan) EXCEPT !.late = TRUE]
  /\ UNCHANGED <<bytes, size, query, position, leftover, at>>

\* The first line of the file has no newline before it.
FinishScan ==
  /\ at = "reading" /\ (position = 0 \/ scan.stop) /\ at' = "done"
  /\ scan' = OnLines(scan, <<leftover>>)
  /\ UNCHANGED <<bytes, size, query, position, leftover>>

AppendRecord ==                                   \* the journal goes on
  /\ Len(bytes) <= size /\ at \in {"reading", "done"}
  /\ bytes' = bytes \o Entry(1) \o <<Newline>>
  /\ UNCHANGED <<size, query, position, leftover, scan, at>>

Next == OpenScan \/ ReadChunk \/ RunOut \/ FinishScan \/ AppendRecord
Spec == Init /\ [][Next]_vars /\ WF_vars(OpenScan \/ ReadChunk \/ FinishScan)
-----------------------------------------------------------------------------
\* The members of a sequence at some of its places.
Selected(s, places) ==
  LET upTo[i \in 0 .. Len(s)] ==
        IF i = 0 THEN <<>> ELSE IF i \in places THEN Append(upTo[i - 1], s[i]) ELSE upTo[i - 1]
  IN upTo[Len(s)]

Lines == LET all == Pieces[SubSeq(bytes, 1, size)]
         IN Selected(all, {i \in DOMAIN all : all[i] # <<>>})
Seen == SubSeq(Lines, 1, IF query.lines < Len(Lines) THEN query.lines ELSE Len(Lines))
Found == Selected(Seen, {i \in DOMAIN Seen : Matches(Seen[i])})
Numbers(lines) == [k \in 1 .. Len(lines) |-> ToHistoryEntry(lines[k])]

\* Wherever the chunks fall, a query answers with the newest matching entries, newest first,
\* up to its limit, and says so when it left lines or matches out.
NewestEntriesFirst ==
  at = "done" =>
    /\ Len(scan.entries) <= query.limit /\ IsPrefix(scan.entries, Numbers(Found))
    /\ scan.late \/ Len(scan.entries) \in {query.limit, Len(Found)}
    /\ scan.truncated = (scan.late \/ Len(Found) > query.limit \/ Len(Lines) > query.lines)
=============================================================================
