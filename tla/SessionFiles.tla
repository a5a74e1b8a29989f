----------------------------- MODULE SessionFiles -----------------------------
(***************************************************************************)
(* The session files a server can find and those it will open:             *)
(* listAllSessions of session-store.ts, which looks up the stored sessions *)
(* and searches the session directories at the same time, and              *)
(* validateSessionFileAccess of validation.ts, which load_session and      *)
(* switch_session_file ask before they open one, while other programs      *)
(* write and remove session files.                                         *)
(*                                                                         *)
(* A path is the sequence of its names.  Directories and links stay as     *)
(* they are.  A file holds a session or junk.                              *)
(***************************************************************************)
EXTENDS Integers, FiniteSets, SequencesExt

CONSTANTS Home, Cwd,
          Dirs, Files,          \* the directories there are, and the files there may be
          Links,                \* function: what each link among them leads to in the end
          Names,                \* the names files and directories may have
          SessionNames,         \* the file names that end in .jsonl or .json
          DangerousNames,       \* names with "..", a leading "~" or a NUL in them
          Stored, StoredFile,   \* the ids in the metadata and the file of each
          None,
          MaxDepth, MaxVisited, \* MAX_DISCOVERY_DEPTH, MAX_DISCOVERY_NODES
          MaxChanges            \* bound: files written and removed

Paths == Seq(Names)

\* Everything has its place in a directory, and is known by that place.
FilesAssumption ==
  /\ {MaxDepth, MaxVisited, MaxChanges} \subseteq Nat
  /\ {".pi", "agent", "sessions"} \subseteq Names
  /\ {Home, Cwd} \cup Dirs \cup Files \subseteq Paths
  /\ IsFiniteSet(Dirs) /\ Dirs \cap Files = {} /\ <<>> \notin Files \cup DOMAIN Links
  /\ \A p \in (Dirs \cup Files) \ {<<>>} : Front(p) \in Dirs \ DOMAIN Links
  /\ DOMAIN Links \subseteq Dirs \cup Files
  /\ Links \in [DOMAIN Links -> (Dirs \cup Files) \ DOMAIN Links]
  /\ StoredFile \in [Stored -> Paths] /\ None \notin Stored /\ None \notin {"session", "junk"}

VARIABLES disk,      \* what each file holds; None where there is no file
          changes,
          phase,     \* idle, listing, listed
          looking,   \* listWithInfo: stored sessions not looked up yet
          found,     \* stored sessions whose file exists
          roots,     \* discoverSessions: directories still to be searched
          stack,     \* directories to read in this one, the next one last
          visited,
          files,     \* session files found in this one, not looked at yet
          discovered,
          listing,   \* the answer: path -> [id, exists]
          asked,     \* the last file somebody wanted to open: [path, ok, held]
          always, ever, cut   \* history: files there all the time, and some of the time, since
                              \* the listing began; directories that were not read

search == <<roots, stack, visited, files, discovered>>
answers == <<looking, found, listing, asked>>
vars == <<disk, changes, phase, search, answers, always, ever, cut>>
-----------------------------------------------------------------------------
\* resolveCanonicalPath, name by name from the top.  (The code leaves more of a path as it is
\* when the directory does not exist; nothing is found under such a path.)
Followed(p) == IF p \in DOMAIN Links THEN Links[p] ELSE p
Canonical[p \in Paths] ==
  IF p = <<>> THEN <<>> ELSE Followed(Append(Canonical[Front(p)], Last(p)))

AgentSessions == Home \o <<".pi", "agent", "sessions">>
Ancestors(p, from) == {SubSeq(p, 1, n) : n \in from .. Len(p)}

\* getDefaultAllowedSessionDirectories: up to the home directory, or to the top outside of it.
Searched ==
  LET cwd == Canonical[Cwd] home == Canonical[Home]
  IN Ancestors(cwd, IF IsPrefix(home, cwd) THEN Len(home) ELSE 0)
AllowedDirectories ==
  {Canonical[AgentSessions]} \cup {Canonical[d \o <<".pi", "sessions">>] : d \in Searched}

DiscoveryRoots == {AgentSessions} \cup AllowedDirectories

IsSessionName(p) == Last(p) \in SessionNames
Exists(p) == Canonical[p] \in Files /\ disk[Canonical[p]] # None

\* validateSessionPath, then validateSessionFileAccess with its probe of the header.
MayBeSession(p) == IsSessionName(p) /\ IsSessionName(Canonical[p])
PathAllowed(p) ==
  /\ \A i \in DOMAIN p : p[i] \notin DangerousNames
  /\ MayBeSession(p)
  /\ \E d \in AllowedDirectories : IsPrefix(d, Canonical[p])
HasHeader(p) == disk[Canonical[p]] = "session"
AccessAllowed(p) == PathAllowed(p) /\ Exists(p) /\ HasHeader(p)
-----------------------------------------------------------------------------
Init ==
  /\ disk \in [Files -> {"session", "junk", None}] /\ changes = 0 /\ phase = "idle"
  /\ looking = {} /\ found = {} /\ roots = {} /\ stack = <<>> /\ visited = 0 /\ files = {}
  /\ discovered = {} /\ listing = <<>> /\ asked = None
  /\ always = {} /\ ever = {} /\ cut = {}

Here == {f \in Files : disk[f] # None}

\* Another program writes or removes a file.
Change(f, content) ==
  /\ changes < MaxChanges /\ changes' = changes + 1
  /\ f \notin DOMAIN Links /\ content # disk[f]
  /\ disk' = [disk EXCEPT ![f] = content]
  /\ always' = IF content = None THEN always \ {f} ELSE always
  /\ ever' = IF content = None THEN ever ELSE ever \cup {f}
  /\ UNCHANGED <<phase, search, answers, cut>>

List ==
  /\ phase = "idle" /\ phase' = "listing"
  /\ looking' = Stored /\ roots' = DiscoveryRoots
  /\ always' = Here /\ ever' = Here
  /\ UNCHANGED <<disk, changes, stack, visited, files, discovered, found, listing, asked, cut>>

LookUp ==
  /\ phase = "listing" /\ looking # {}
  /\ LET i == CHOOSE i \in looking : TRUE IN
       /\ looking' = looking \ {i}
       /\ found' = IF Exists(StoredFile[i]) THEN found \cup {i} ELSE found
  /\ UNCHANGED <<disk, changes, phase, search, listing, asked, always, ever, cut>>

\* collectSessionFiles, from its first directory.
EnterRoot ==
  /\ phase = "listing" /\ stack = <<>> /\ files = {} /\ roots # {}
  /\ LET r == CHOOSE r \in roots : TRUE IN
       roots' = roots \ {r} /\ stack' = <<[dir |-> r, depth |-> 0]>>
  /\ visited' = 0
  /\ UNCHANGED <<disk, changes, phase, files, discovered, answers, always, ever, cut>>

\* Neither a linked file nor a linked directory counts as one.
Members(dir, kind) ==
  {p \in kind \ DOMAIN Links : Len(p) > 0 /\ Front(p) = Canonical[dir]}
Named(dir, p) == Append(dir, Last(p))

Descends(depth) == depth < MaxDepth

ReadDir ==
  /\ phase = "listing" /\ stack # <<>> /\ visited < MaxVisited
  /\ visited' = visited + 1
  /\ LET item == Last(stack) IN
       \/ /\ Canonical[item.dir] \in Dirs \ DOMAIN Links
          /\ LET below == IF Descends(item.depth) THEN Members(item.dir, Dirs) ELSE {}
                 items == {[dir |-> Named(item.dir, d), depth |-> item.depth + 1] : d \in below}
             IN stack' = Front(stack) \o SetToSeq(items)
          /\ files' = files \cup {Named(item.dir, f) : f \in {f \in Members(item.dir, Files) :
                                                  disk[f] # None /\ IsSessionName(f)}}
          /\ UNCHANGED cut
       \/ \* It cannot be read, or is not there.
          /\ stack' = Front(stack) /\ UNCHANGED files
          /\ cut' = cut \cup {Canonical[item.dir]}
  /\ UNCHANGED <<disk, changes, phase, roots, discovered, answers, always, ever>>

StopSearching ==
  /\ phase = "listing" /\ stack # <<>> /\ visited >= MaxVisited
  /\ stack' = <<>> /\ cut' = cut \cup {Canonical[stack[i].dir] : i \in DOMAIN stack}
  /\ UNCHANGED <<disk, changes, phase, roots, visited, files, discovered, answers, always, ever>>

\* A file that is gone is left out; what it holds does not matter.
LookAt ==
  /\ phase = "listing" /\ stack = <<>> /\ files # {}
  /\ LET f == CHOOSE f \in files : TRUE IN
       /\ files' = files \ {f}
       /\ discovered' = IF Exists(f) THEN discovered \cup {f} ELSE discovered
  /\ UNCHANGED <<disk, changes, phase, roots, stack, visited, answers, always, ever, cut>>

\* byPath: what was discovered, then what is stored, over it.
ByPath(i, p) == StoredFile[i] = p
DiscoveredWins(p) ==                             \* fault: merged the other way round
  IF p \in discovered THEN [id |-> None, exists |-> TRUE]
  ELSE LET i == CHOOSE i \in Stored : ByPath(i, p) IN [id |-> i, exists |-> i \in found]
Merged(p) ==
  IF \E i \in Stored : ByPath(i, p)
  THEN LET i == CHOOSE i \in Stored : ByPath(i, p) IN [id |-> i, exists |-> i \in found]
  ELSE [id |-> None, exists |-> TRUE]

Answer ==
  /\ phase = "listing" /\ looking = {} /\ roots = {} /\ stack = <<>> /\ files = {}
  /\ phase' = "listed"
  /\ listing' = [p \in discovered \cup {StoredFile[i] : i \in Stored} |-> Merged(p)]
  /\ UNCHANGED <<disk, changes, search, looking, found, asked, always, ever, cut>>

\* load_session or switch_session_file of a session on the list.
Open(p) ==
  /\ phase = "listed"
  /\ asked' = [path |-> p, ok |-> AccessAllowed(p), held |-> disk[Canonical[p]]]
  /\ UNCHANGED <<disk, changes, phase, search, looking, found, listing, always, ever, cut>>

Next ==
  \/ \E f \in Files, content \in {"session", "junk", None} : Change(f, content)
  \/ List \/ LookUp \/ EnterRoot \/ ReadDir \/ StopSearching \/ LookAt \/ Answer
  \/ \E p \in DOMAIN listing : Open(p)

Spec == Init /\ [][Next]_vars
-----------------------------------------------------------------------------
\* A session file that was there while the listing ran, in a directory that is searched and not
\* too deep in it, is on the list, whatever else came and went, unless a directory above it
\* could not be read or was one too many.
Within(f, d) == IsPrefix(d, f) /\ Len(f) - Len(d) - 1 \in 0 .. MaxDepth
NothingMissed ==
  phase = "listed" =>
    \A f \in always \ DOMAIN Links :
      IsSessionName(f) /\ (\E d \in AllowedDirectories : Within(f, d))
        => f \in DOMAIN listing \/ \E d \in cut : IsPrefix(d, f)

\* What is listed as a file was one while the listing ran, and every stored session with a file
\* of its own is listed under its own id, so that it can be deleted and loaded by it.
ListingTruthful ==
  phase = "listed" =>
    /\ \A p \in DOMAIN listing : listing[p].exists => Canonical[p] \in ever
    /\ \A i \in Stored :
         (\A j \in Stored : StoredFile[j] = StoredFile[i] => j = i)
           => \E p \in DOMAIN listing : listing[p].id = i

\* A session that was discovered may be opened: the search and the check of the path agree on
\* where sessions are, and what they are called, but for the names only the check objects to.
ListedMayBeOpened ==
  asked # None /\ asked.path \in discovered /\ asked.held = "session" => asked.ok
    \/ \E i \in DOMAIN asked.path : asked.path[i] \in DangerousNames

\* The listing is true: complete, about files that are there, and good for opening them.
ListingTrue == NothingMissed /\ ListingTruthful /\ ListedMayBeOpened
=============================================================================
