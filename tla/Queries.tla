------------------------------- MODULE Queries -------------------------------
(***************************************************************************)
(* What a client may ask to see, and what the server has to collect first: *)
(* the session files there are and which of them it may open               *)
(* (SessionFiles), the tree of a session (SessionTree), the commands in    *)
(* the journal (JournalHistory).  The three share no state.                *)
(***************************************************************************)
EXTENDS Integers, Sequences

CONSTANTS Home, Cwd, Dirs, Files, Links, Names, SessionNames, DangerousNames,     \* listings
          Stored, StoredFile, NoFile, MaxDepth, MaxVisited, FileChanges,
          Nodes, TreeEntries, TreeDepth, TreeNodes,                               \* trees
          HistoryFiles, Chunks, HistoryLimits, ScanLimits, Matching, MayRunOut    \* history

VARIABLES disk, changes, phase, looking, found, roots, dirs, visited, files, discovered,
          listing, asked, always, ever, cut,                   \* of the listings
          parent, hollow, node, stack, result,                 \* of the trees
          bytes, size, query, position, leftover, scan, at     \* of the history

fileVars == <<disk, changes, phase, looking, found, roots, dirs, visited, files, discovered,
              listing, asked, always, ever, cut>>
treeVars == <<parent, hollow, node, stack, result>>
historyVars == <<bytes, size, query, position, leftover, scan, at>>

Listings == INSTANCE SessionFiles WITH
  None <- NoFile, MaxChanges <- FileChanges, stack <- dirs
Trees == INSTANCE SessionTree WITH
  entry <- node, Entries <- TreeEntries, MaxDepth <- TreeDepth, MaxNodes <- TreeNodes
History == INSTANCE JournalHistory WITH
  Files <- HistoryFiles, Limits <- HistoryLimits, Wanted <- Matching

ASSUME QueriesAssumption ==
  Listings!FilesAssumption /\ Trees!TreeAssumption /\ History!HistoryAssumption
-----------------------------------------------------------------------------
\* What is listed is true, and may be opened (SessionFiles).
ListingTrue == Listings!ListingTrue

\* A tree is shown in order (SessionTree).
TreeInOrder == Trees!TreeInOrder

\* A query of the history answers with the newest entries first (JournalHistory).
NewestEntriesFirst == History!NewestEntriesFirst
=============================================================================
