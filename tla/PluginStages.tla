---------------------------- MODULE PluginStages ----------------------------
(***************************************************************************)
(* Plugins in the ingestion pipeline: registry and manifests are read from *)
(* a directory in the order the file system lists it, the manager picks    *)
(* the plugins of each stage, and the runner starts a process per call     *)
(* (PluginDaemon models the plugins that stay).  A document is the record  *)
(* of who made it: extractor, post-processors, chunker and the summaries   *)
(* of its nodes.                                                           *)
(***************************************************************************)
EXTENDS Naturals, Sequences, FiniteSets

CONSTANTS
  Plugs,     \* subdirectories of the plugins directory
  NoPlug,    \* stands for the pipeline itself, or the caller
  PlugNodes  \* nodes with content that the document gets

VARIABLES
  manifest,  \* plugin.toml of each subdirectory
  unread,    \* subdirectories that discover has not come to yet
  registry,  \* the registered plugins, first choice first
  doc,       \* the document on its way through the stages
  strays,    \* plugins whose process was left running after a timeout
  gaveError  \* history: the plugins that failed a call for this document

stageVars == <<manifest, unread, registry, doc, strays, gaveError>>

Sources == {"file", "url", "text"}
Kinds == {"extractor", "post_processor", "chunker", "summarizer"}

\* loads: the manifest parses, has a name, a known kind and a supported command.
Manifests ==
  [kind : {"extractor"}, priority : {1, 2}, loads : {TRUE}, handles : {{"file"}, {"url"}, {"file", "url"}}]
    \cup [kind : Kinds \ {"extractor"}, priority : {1, 2}, loads : {TRUE}, handles : {{}}]
    \cup [kind : {"extractor"}, priority : {2}, loads : {FALSE}, handles : {{"file"}}]

NoDocument ==
  [stage |-> "discover", source |-> "text", by |-> NoPlug, through |-> <<>>, at |-> 0,
   chunker |-> NoPlug, summary |-> [n \in PlugNodes |-> NoPlug]]

StagesInit ==
  /\ manifest \in [Plugs -> Manifests]
  /\ unread = Plugs /\ registry = <<>>
  /\ doc = NoDocument /\ strays = {} /\ gaveError = {}

(***************************************************************************)
(* The registry                                                            *)
(***************************************************************************)

\* Mutant: plugins stay in the order in which they were found.
RegisterUnsorted(p) == Append(registry, p)

\* push and a stable sort by descending priority: behind the plugins of at least its priority.
Register(p) ==
  LET before == Cardinality({i \in DOMAIN registry : manifest[registry[i]].priority >= manifest[p].priority})
  IN  SubSeq(registry, 1, before) \o <<p>> \o SubSeq(registry, before + 1, Len(registry))

\* discover: entries in the order of read_dir; one that does not load is passed over.
Discover ==
  \E p \in unread :
    /\ unread' = unread \ {p}
    /\ registry' = IF manifest[p].loads THEN Register(p) ELSE registry
    /\ UNCHANGED <<manifest, doc, strays, gaveError>>

\* Where the registry lists the plugins of a kind, and the extractors for a source.
ByKind(kind) == {i \in DOMAIN registry : manifest[registry[i]].kind = kind}

ExtractorsFor(source) == {i \in ByKind("extractor") : source \in manifest[registry[i]].handles}

\* The foremost of some positions.
Foremost(is) == CHOOSE i \in is : \A j \in is : i <= j

(***************************************************************************)
(* The runner                                                              *)
(***************************************************************************)

\* A call of plugin p: a result, an error (the process cannot be started, exits with a status, prints
\* nothing or no response, or reports an error), a timeout, which leaves the process to itself, or
\* output whose quotation in an error message ends inside a character.
Invoke(p, result) ==
  /\ result \in {"ok", "error", "timeout", "panic"}
  /\ strays' = IF result = "timeout" THEN strays \cup {p} ELSE strays
  /\ gaveError' = IF result = "ok" THEN gaveError ELSE gaveError \cup {p}

NotInvoked == UNCHANGED <<strays, gaveError>>

StrayExits ==
  \E p \in strays :
    /\ strays' = strays \ {p}
    /\ UNCHANGED <<manifest, unread, registry, doc, gaveError>>

(***************************************************************************)
(* The stages                                                              *)
(***************************************************************************)

Advance(d) == doc' = d /\ UNCHANGED <<manifest, unread, registry>>

\* ingest_file, ingest_url and ingest_text.
AcceptSource(source) ==
  /\ unread = {} /\ doc.stage = "discover"
  /\ Advance([doc EXCEPT !.source = source, !.stage = IF source = "text" THEN "process" ELSE "extract"])
  /\ NotInvoked

\* Only the first extractor is asked; without one, or when it fails, so does the document.  A panic of
\* the blocking task is an error like the others.
Extract ==
  LET fit   == ExtractorsFor(doc.source)
      first == registry[Foremost(fit)]
  IN  /\ doc.stage = "extract"
      /\ \/ fit = {} /\ Advance([doc EXCEPT !.stage = "failed"]) /\ NotInvoked
         \/ /\ fit # {} /\ Invoke(first, "ok")
            /\ Advance([doc EXCEPT !.stage = "process", !.by = first])
         \/ \E result \in {"error", "timeout", "panic"} :
              /\ fit # {} /\ Invoke(first, result)
              /\ Advance([doc EXCEPT !.stage = "failed"])

\* Mutant: the output of the processors before the failing one is kept.
ChainFailedPartly == [doc EXCEPT !.stage = "chunk"]

\* The original text goes on.
ChainFailed == [doc EXCEPT !.stage = "chunk", !.through = <<>>]

\* run_post_processors: each gets the output of the one before.
PostProcess ==
  LET left == {i \in ByKind("post_processor") : i > doc.at}
      next == Foremost(left)
  IN  /\ doc.stage = "process"
      /\ \/ left = {} /\ Advance([doc EXCEPT !.stage = "chunk"]) /\ NotInvoked
         \/ /\ left # {}
            /\ \/ /\ Invoke(registry[next], "ok")
                  /\ Advance([doc EXCEPT !.through = Append(@, registry[next]), !.at = next])
               \/ \E result \in {"error", "timeout"} : Invoke(registry[next], result) /\ Advance(ChainFailed)
               \/ Invoke(registry[next], "panic") /\ Advance([doc EXCEPT !.stage = "panicked"])

\* The first chunker plugin, or what the pipeline does itself when there is none or it fails.
ChunkText ==
  LET own   == ByKind("chunker")
      first == registry[Foremost(own)]
  IN  /\ doc.stage = "chunk"
      /\ \/ own = {} /\ Advance([doc EXCEPT !.stage = "summarize"]) /\ NotInvoked
         \/ own # {} /\ Invoke(first, "ok") /\ Advance([doc EXCEPT !.stage = "summarize", !.chunker = first])
         \/ \E result \in {"error", "timeout"} :
              own # {} /\ Invoke(first, result) /\ Advance([doc EXCEPT !.stage = "summarize"])
         \/ own # {} /\ Invoke(first, "panic") /\ Advance([doc EXCEPT !.stage = "panicked"])

\* The first summarizer plugin, node by node; a node it fails for is left without a summary.
Summarize ==
  LET own   == ByKind("summarizer")
      first == registry[Foremost(own)]
  IN  /\ doc.stage = "summarize"
      /\ IF own = {} THEN Advance([doc EXCEPT !.stage = "done"]) /\ NotInvoked
         ELSE \/ \E ns \in SUBSET PlugNodes, result \in {"error", "timeout"} :
                   /\ Invoke(first, IF ns = PlugNodes THEN "ok" ELSE result)
                   /\ Advance([doc EXCEPT !.stage = "done",
                                          !.summary = [n \in PlugNodes |-> IF n \in ns THEN first ELSE NoPlug]])
              \/ Invoke(first, "panic") /\ Advance([doc EXCEPT !.stage = "panicked"])

StagesNext ==
  \/ Discover \/ StrayExits
  \/ \E source \in Sources : AcceptSource(source)
  \/ Extract \/ PostProcess \/ ChunkText \/ Summarize

(***************************************************************************)
(* Properties                                                              *)
(***************************************************************************)

Listed(s) == {s[i] : i \in DOMAIN s}

Distinct(s) == \A i, j \in DOMAIN s : s[i] = s[j] => i = j

StagesTypeOK ==
  /\ manifest \in [Plugs -> Manifests] /\ unread \subseteq Plugs /\ strays \subseteq Plugs
  /\ Distinct(registry) /\ Listed(registry) \subseteq Plugs
  /\ doc.stage \in {"discover", "extract", "process", "chunk", "summarize", "done", "failed", "panicked"}

\* The plugins of the directory that could serve a stage, and those of them nobody outranks.
Fit(kind, source) ==
  {p \in Plugs : manifest[p].loads /\ manifest[p].kind = kind
                   /\ (kind = "extractor" => source \in manifest[p].handles)}

Top(ps) == {p \in ps : \A q \in ps : manifest[q].priority <= manifest[p].priority}

\* Whatever order the file system lists the plugins in and whichever calls fail: a document that is
\* chunked was extracted by a plugin that none outranks for its source; its text passed every
\* post-processor once, higher priorities first, or, after a failure, none of them; the pipeline
\* chunks itself only when the best chunker failed or there is none; and a document fails only for
\* want of an extractor or through the failure of the best one.
StagesUseTheBest ==
  LET extractors == Fit("extractor", doc.source)
      processors == Fit("post_processor", doc.source)
      chunkers   == Fit("chunker", doc.source)
  IN  /\ doc.stage \in {"chunk", "summarize", "done"} =>
           /\ doc.source # "text" => doc.by \in Top(extractors)
           /\ \/ doc.through = <<>> /\ (processors = {} \/ processors \cap gaveError # {})
              \/ /\ Listed(doc.through) = processors /\ Distinct(doc.through)
                 /\ \A i, j \in DOMAIN doc.through :
                      i < j => manifest[doc.through[i]].priority >= manifest[doc.through[j]].priority
      /\ doc.stage \in {"summarize", "done"} =>
           \/ doc.chunker \in Top(chunkers)
           \/ doc.chunker = NoPlug /\ (chunkers = {} \/ Top(chunkers) \cap gaveError # {})
      /\ doc.stage = "failed" => extractors = {} \/ Top(extractors) \cap gaveError # {}
=============================================================================
