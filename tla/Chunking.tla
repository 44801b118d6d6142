------------------------------ MODULE Chunking ------------------------------
(***************************************************************************)
(* From the text of a document to its tree.                                *)
(*                                                                         *)
(* agentic_chunk cuts the lines into overlapping windows, asks the model   *)
(* to group the lines of every window, takes the answers as they come, and *)
(* drops the groups of a later window that start inside its overlap.  The  *)
(* other ways to chunks are a splitter, a plugin and the caller.           *)
(* TreeBuilder::build_tree hangs the chunks below each other by heading    *)
(* level.  A line is its number.                                           *)
(***************************************************************************)
EXTENDS Integers, Sequences, FiniteSets, SequencesExt, Positions

CONSTANTS
  MaxLines,     \* bound on the lines of a document
  WindowSize,   \* chunker.agentic_window_size (150)
  MinOverlap,   \* the least overlap of two windows (5)
  Concurrency,  \* chunker.agentic_concurrency (10)
  MaxLevel,     \* bound on the level of a heading
  BuilderDepth, \* TreeBuilder.max_depth (10): the level of a chunk without heading
  MaxChunks     \* bound on the chunks that do not come from windows

Overlap == Max({WindowSize \div 10, MinOverlap})

\* A window of at most the overlap does not move on: the loop that plans the windows would not end.
ASSUME ChunkingAssumption ==
  /\ {MaxLines, MinOverlap, BuilderDepth, MaxChunks, WindowSize} \subseteq Nat
  /\ {Concurrency, MaxLevel} \subseteq Nat \ {0} /\ WindowSize > Overlap

VARIABLES
  stage,    \* "windows", "chunks" or "built"
  text,     \* the document: how many lines, and which of them are blank
  answers,  \* window -> the groups chunk_document returned for it
  chunks,   \* the chunks
  tree      \* the nodes built from them

chunkVars == <<stage, text, answers, chunks, tree>>

Chunk == [headed : BOOLEAN, level : 0..MaxLevel, lines : SUBSET (1..MaxLines), summary : BOOLEAN]

ChunkingInit ==
  /\ text \in {[lines |-> n, blank |-> b] : n \in 0..MaxLines, b \in {{}} \cup {{i} : i \in 1..MaxLines}}
  /\ text.blank \subseteq 1..text.lines
  /\ stage = "windows" /\ answers = <<>> /\ chunks = <<>> /\ tree = <<>>

(***************************************************************************)
(* Windows                                                                 *)
(***************************************************************************)

\* Offsets 0, Step, 2 * Step ... up to the first window that reaches the end.
Windows(n) ==
  LET Step  == WindowSize - Overlap
      count == IF n = 0 THEN 0 ELSE 1 + Min({k \in 0..n : k * Step + WindowSize >= n})
  IN  [k \in 1..count |->
         [first  |-> (k - 1) * Step + 1,
          last   |-> Min({(k - 1) * Step + WindowSize, n}),
          cutoff |-> (k - 1) * Step + 1 + IF k = 1 THEN 0 ELSE Overlap]]

Plan == Windows(text.lines)

\* Missing start lines (0) are filled in: the window's first line, or the one after the group before.
Repaired(w, reply) ==
  [i \in DOMAIN reply |->
     [reply[i] EXCEPT !.first = IF @ # 0 THEN @ ELSE IF i = 1 THEN w.first ELSE reply[i - 1].last + 1]]

\* The groups of a window that end at the lines of E.
EndGroups(w, E) ==
  LET ends == Ascending(E)
  IN  [i \in DOMAIN ends |->
         [first |-> IF i = 1 THEN w.first ELSE ends[i - 1] + 1, last |-> ends[i], headed |-> TRUE]]

\* What the model is asked for: groups that cover the window, each with a heading.
Groupings(w) == {EndGroups(w, S \cup {w.last}) : S \in SUBSET (w.first..(w.last - 1))}

\* It may leave out a heading, or start lines: one or all of them.
Careless(p) ==
  {[p EXCEPT ![i].headed = FALSE] : i \in DOMAIN p} \cup {[p EXCEPT ![i].first = 0] : i \in DOMAIN p}
    \cup {[i \in DOMAIN p |-> [p[i] EXCEPT !.first = 0]]}

\* Or return the groups backwards.
Replies(w) == UNION {{p, Reverse(p)} \cup Careless(p) : p \in Groupings(w)}

\* A call that fails counts as one group without heading for the whole window.
Single(w) == <<[first |-> w.first, last |-> w.last, headed |-> FALSE]>>

\* chunk_document for one window; at most Concurrency windows are with the model.
ChunkDocument(k) ==
  /\ stage = "windows" /\ k \in DOMAIN Plan \ DOMAIN answers
  /\ Cardinality(1..(k - 1) \ DOMAIN answers) < Concurrency
  /\ \E reply \in Replies(Plan[k]) \cup {Single(Plan[k])} :
       answers' = [j \in DOMAIN answers \cup {k} |-> IF j = k THEN Repaired(Plan[k], reply) ELSE answers[j]]
  /\ UNCHANGED <<stage, text, chunks, tree>>

(***************************************************************************)
(* Chunks                                                                  *)
(***************************************************************************)

\* Mutant: a group that starts right behind the overlap is dropped too.
KeptStrictly(k) == {i \in DOMAIN answers[k] : k = 1 \/ answers[k][i].first > Plan[k].cutoff}

\* Of the first window every group is kept, of a later one those that start past the overlap.
Kept(k) == {i \in DOMAIN answers[k] : k = 1 \/ answers[k][i].first >= Plan[k].cutoff}

ChunkOf(g) ==
  [headed |-> g.headed, level |-> 1, summary |-> FALSE,
   lines |-> (Max({g.first, 1})..Min({g.last, text.lines})) \ text.blank]

\* A group is known by its window and its place in the answer.
Group(p) == answers[p[1]][p[2]]

\* A stable sort by first line of what the windows left in their order.
InFront(p, q) ==
  \/ Group(p).first < Group(q).first
  \/ Group(p).first = Group(q).first /\ (p[1] < q[1] \/ (p[1] = q[1] /\ p[2] < q[2]))

\* The kept groups by first line, without the empty ones.
Grouped ==
  LET kept   == UNION {{<<k, i>> : i \in Kept(k)} : k \in DOMAIN Plan}
      filled == {p \in kept : ChunkOf(Group(p)).lines # {}}
      sorted == Lined(filled, {o \in filled \X filled : InFront(o[1], o[2])})
  IN  [n \in DOMAIN sorted |-> ChunkOf(Group(sorted[n]))]

OnePerLine(s, levels, supplied) ==
  {[i \in DOMAIN s |->
      [headed |-> h[i], level |-> l[i], lines |-> {s[i]} \ text.blank, summary |-> i \in given]] :
     h \in [DOMAIN s -> BOOLEAN], l \in [DOMAIN s -> levels], given \in SUBSET supplied}

\* chunk_text and chunker plugins: pieces of the text with or without a heading.  Here a piece is a line.
Pieces == OnePerLine(Ascending((1..text.lines) \ text.blank), 0..MaxLevel, {})

\* convert_chunk_inputs: every heading has level 1; the caller may supply empty texts, and summaries.
Supplied == OnePerLine([i \in 1..text.lines |-> i], {1}, 1..text.lines)

\* agentic_chunk after the last answer; without any chunk the splitter takes over.  The other
\* strategies use it, or a plugin, from the start, and the chunks route has its chunks from the caller.
MakeChunks ==
  /\ stage = "windows" /\ stage' = "chunks"
  /\ \/ /\ DOMAIN answers = DOMAIN Plan
        /\ IF Plan = <<>> THEN chunks' = <<>>
           ELSE IF Grouped # <<>> THEN chunks' = Grouped ELSE chunks' \in Pieces
     \/ answers = <<>> /\ text.lines <= MaxChunks /\ chunks' \in Pieces \cup Supplied
  /\ UNCHANGED <<text, answers, tree>>

(***************************************************************************)
(* The tree                                                                *)
(***************************************************************************)

HeadingLevel(c) == IF c.headed THEN c.level ELSE BuilderDepth

\* Mutant: only deeper headings are popped, one of the same level becomes the parent.
PoppedDeeper(stack, level) == SubSeq(stack, 1, Max({k \in DOMAIN stack : k = 1 \/ stack[k][1] <= level}))

\* The stack of build_tree holds <<level, node>>; node 0 is the root.  Entries of at least the chunk's
\* level are popped, the root never.
Popped(stack, level) == SubSeq(stack, 1, Max({k \in DOMAIN stack : k = 1 \/ stack[k][1] < level}))

\* One chunk becomes a node below the top of the stack, and the new top if it has a heading.
AddChunk(state, c) ==
  LET stack  == Popped(state.stack, HeadingLevel(c))
      parent == stack[Len(stack)][2]
      id     == Len(state.nodes) + 1
  IN  [nodes |-> Append(state.nodes, [parent |-> parent, depth |-> Len(stack)]),
       stack |-> IF c.headed THEN Append(stack, <<HeadingLevel(c), id>>) ELSE stack]

\* The nodes so far and the stack after each chunk.
Builder(s) ==
  LET after[n \in 0..Len(s)] ==
        IF n = 0 THEN [nodes |-> <<>>, stack |-> <<<<0, 0>>>>] ELSE AddChunk(after[n - 1], s[n])
  IN  after

Placed(s) == Builder(s)[Len(s)].nodes

KidsOf(places, id) == Ascending({i \in DOMAIN places : places[i].parent = id})

\* to_page_node: only a leaf keeps its text and the summary that came with it.
ToPageNodes(s) ==
  LET places == Placed(s)
  IN  [i \in 0..Len(s) |->
         IF i = 0 THEN [parent |-> -1, depth |-> 0, children |-> KidsOf(places, 0), lines |-> {}, summary |-> FALSE]
         ELSE LET leaf == KidsOf(places, i) = <<>> /\ s[i].lines # {}
              IN  [parent |-> places[i].parent, depth |-> places[i].depth, children |-> KidsOf(places, i),
                   lines |-> IF leaf THEN s[i].lines ELSE {}, summary |-> leaf /\ s[i].summary]]

Build ==
  /\ stage = "chunks" /\ stage' = "built"
  /\ tree' = ToPageNodes(chunks)
  /\ UNCHANGED <<text, answers, chunks>>

ChunkingNext ==
  \/ \E k \in 1..MaxLines : ChunkDocument(k)
  \/ MakeChunks
  \/ Build

ChunkingTypeOK ==
  /\ stage \in {"windows", "chunks", "built"}
  /\ \A k \in DOMAIN answers : \A i \in DOMAIN answers[k] : answers[k][i].first \in 1..(MaxLines + 1)
  /\ Range(chunks) \subseteq Chunk

(***************************************************************************)
(* Properties                                                              *)
(***************************************************************************)

SourceText == (1..text.lines) \ text.blank

\* Line l is lost at a seam: a later window has it in a group that starts inside the overlap, so that
\* the group is dropped, and the window before does not reach it.
AtSeam(l) ==
  \E k \in DOMAIN answers \ {1} :
    /\ l > Plan[k - 1].last
    /\ \E i \in DOMAIN answers[k] :
         LET g == answers[k][i] IN g.first < Plan[k].cutoff /\ l \in g.first..g.last

\* A line with text reaches a chunk whatever the order of the answers, failed calls, missing start
\* lines and blank lines, unless it is lost at a seam of two windows.  (agentic_chunk, chunk_document.)
LinesReachChunks ==
  stage # "windows" /\ DOMAIN answers = DOMAIN Plan /\ text.lines > 0
    => \A l \in SourceText : (\E i \in DOMAIN chunks : l \in chunks[i].lines) \/ AtSeam(l)

\* The parent a node should have: the nearest heading before it that no chunk since has closed.
Above(i) ==
  {j \in 1..(i - 1) : chunks[j].headed /\ \A k \in (j + 1)..i : HeadingLevel(chunks[k]) > HeadingLevel(chunks[j])}

\* Every link leads to a node one level down, and no path is longer than there are nodes.
Levelled ==
  /\ IsFiniteSet(DOMAIN tree) /\ DOMAIN tree # {}
  /\ \A n \in DOMAIN tree :
       /\ tree[n].depth \in 0..Cardinality(DOMAIN tree)
       /\ \A m \in Range(tree[n].children) : m \in DOMAIN tree /\ tree[m].depth = tree[n].depth + 1

\* The tree has a node for every chunk below the nearest open heading, one deeper than its parent; the
\* text and summary that came with a chunk are lost only when sections follow below it, the summary also
\* when the chunk has no text.
\* (TreeBuilder::build_tree, to_page_node.)
TreeFollowsHeadings ==
  stage = "built" => Levelled /\ \A i \in 1..Len(chunks) :
    /\ tree[i].parent = IF Above(i) = {} THEN 0 ELSE Max(Above(i))
    /\ tree[i].depth = tree[tree[i].parent].depth + 1
    /\ i \in Range(tree[tree[i].parent].children)
    /\ \/ \E j \in DOMAIN chunks : i \in Above(j)
       \/ /\ tree[i].lines = chunks[i].lines
          /\ tree[i].summary = (chunks[i].summary /\ chunks[i].lines # {})
=============================================================================
