----------------------------- MODULE SessionTree -----------------------------
(***************************************************************************)
(* serializeSessionTreeNodes of command-router.ts: the entries of a        *)
(* session's tree as a flat list, with a stack instead of recursion, at    *)
(* most MaxNodes of them and none below MaxDepth.                          *)
(*                                                                         *)
(* Nodes are numbered so that parents come before children, and siblings   *)
(* are listed by number; 0 is the place above the roots.  Some list        *)
(* members are hollow (null, not an object); an entry is of a kind and has *)
(* a body, which is what its preview text is made of.                      *)
(***************************************************************************)
EXTENDS Integers, FiniteSets, SequencesExt

CONSTANTS Nodes,      \* 1 .. n
          Entries,    \* [kind, body] the entries may be
          MaxDepth, MaxNodes

TreeAssumption ==
  /\ Nodes \subseteq Nat \ {0} /\ IsFiniteSet(Nodes) /\ MaxDepth \in Nat /\ MaxNodes \in Nat
  /\ \A e \in Entries : e.body \in {"absent", "text", "other"}

VARIABLES parent, hollow, entry,   \* the tree
          stack,                   \* [node, depth], the next one last
          result                   \* the nodes serialized

tree == <<parent, hollow, entry>>
vars == <<tree, stack, result>>

Ascending(S) == CHOOSE s \in [1 .. Cardinality(S) -> S] : \A i, j \in DOMAIN s : i < j => s[i] < s[j]
Kids(n) == Ascending({k \in Nodes : parent[k] = n})
-----------------------------------------------------------------------------
\* extractEntryPreview hands these bodies on as they are; the others are only used when they are
\* strings, or inside a template.
BareBodies ==
  {"branch_summary", "compaction", "model_change", "thinking_level_change", "session_info"}

\* normalizePreview calls a method of strings on what it gets.
Malformed(e) == e.kind \in BareBodies /\ e.body = "other"

\* The loop over a list of nodes, from the last to the first: what it finds solid.
Solid[nodes \in Seq(Nodes)] ==
  IF nodes = <<>> THEN <<>>
  ELSE (IF Last(nodes) \in hollow THEN <<>> ELSE <<Last(nodes)>>) \o Solid[Front(nodes)]

\* What pushing a list of nodes leaves on the stack: the first of them on top.
PushedInOrder(nodes, depth) ==                   \* fault: pushed from first to last
  LET solid == Reverse(Solid[nodes])
  IN [i \in DOMAIN solid |-> [node |-> solid[i], depth |-> depth]]
Pushed(nodes, depth) ==
  [i \in DOMAIN Solid[nodes] |-> [node |-> Solid[nodes][i], depth |-> depth]]
-----------------------------------------------------------------------------
Init ==
  /\ parent \in {p \in [Nodes -> Nodes \cup {0}] : \A n \in Nodes : p[n] < n}
  /\ hollow \in {h \in SUBSET Nodes : \A n \in Nodes : parent[n] \notin h}
  /\ entry \in [Nodes -> Entries]
  /\ stack = Pushed(Kids(0), 0) /\ result = <<>>

\* One round of the loop.
Visit ==
  /\ stack # <<>> /\ Len(result) < MaxNodes
  /\ LET item == Last(stack) IN
       IF item.depth > MaxDepth
       THEN stack' = Front(stack) /\ UNCHANGED result
       ELSE /\ result' = IF Malformed(entry[item.node]) THEN result ELSE Append(result, item.node)
            /\ stack' = Front(stack) \o Pushed(Kids(item.node), item.depth + 1)
  /\ UNCHANGED tree

Next == Visit
Spec == Init /\ [][Next]_vars
-----------------------------------------------------------------------------
TypeOK ==
  /\ parent \in [Nodes -> Nodes \cup {0}] /\ hollow \subseteq Nodes
  /\ entry \in [Nodes -> Entries] /\ result \in Seq(Nodes)
  /\ stack \in Seq([node : Nodes \ hollow, depth : Nat])

Depth[n \in Nodes] == IF parent[n] = 0 THEN 0 ELSE Depth[parent[n]] + 1

\* An entry that can be shown, on its own.
Self(n) == IF n \in hollow \/ Malformed(entry[n]) \/ Depth[n] > MaxDepth THEN <<>> ELSE <<n>>

\* What can be shown of the tree below a node, in preorder, as a definition.
Preorder[n \in Nodes \cup {0}] ==
  LET kids == Kids(n) IN FlattenSeq([i \in DOMAIN kids |-> Self(kids[i]) \o Preorder[kids[i]]])

Wanted == Preorder[0]

\* The list is the tree in preorder, without what cannot be shown, and an entry that cannot be
\* shown does not take its children with it; when the loop ends the list is complete, or full.
TreeInOrder ==
  /\ TypeOK
  /\ IsPrefix(result, Wanted)
  /\ stack = <<>> => result = Wanted
=============================================================================
