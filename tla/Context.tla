------------------------------ MODULE Context ------------------------------
(* The context of a worker: the phase's files and what they import are     *)
(* found, read and cut down to the token budget, with a second try on the   *)
(* phase's own files alone.  Every file operation is an await, and other    *)
(* workers create and delete files meanwhile.                               *)
EXTENDS Naturals, FiniteSets, SequencesExt, Listing

CONSTANTS
  Paths,         \* the paths a file may be named by
  FileOf,        \* the file each of them leads to; a file is its own canonical path
  ContextFiles,  \* phase.context_files, a sequence of paths
  Statements,    \* what each file's text imports, in order: [form, spec, base]
  Aliases,       \* the paths of tsconfig.json, in order: [specs, targets]
  Variants,      \* a base name, with the extensions and as a folder's index, in the order tried
  LanguageOf,    \* the language of each file, "none" for what is not parsed
  KindOf,        \* "text", "binary", "folder", "outside", "huge" or "ignored"
  Tokens,        \* the tokens of each file's content
  Stripped,      \* and of the same without its function bodies
  Secrets,       \* what in each file looks like a secret: [kind, placeholder, key]
  Budget,        \* the token limit
  Wrapper,       \* the tokens of the file markers
  Marker,        \* the tokens of the truncation notice
  MaxEntries,    \* how many files the map of the repository lists
  MaxDepth,      \* how far imports are followed
  MaxEdits       \* bound: files created or deleted by others

SourceFiles == {FileOf[p] : p \in Paths}

ASSUME ContextAssumption ==
  /\ SourceFiles \subseteq Paths /\ \A f \in SourceFiles : FileOf[f] = f
  /\ ContextFiles \in Seq(Paths)
  /\ \A b \in DOMAIN Variants : Variants[b] \in Seq(SourceFiles)
  /\ \A f \in SourceFiles : Stripped[f] <= Tokens[f]
  /\ FileOf \in [Paths -> Paths] /\ \A f \in SourceFiles : Statements[f] \in Seq(Range(Statements[f]))
  /\ MaxDepth \in Nat

VARIABLES
  blocking,  \* the setting blockOnSecretsDetection, which the user may change
  resolver,  \* "ast" or "explicit"
  stack,     \* calls of enqueue still to be made, the next one first
  visited,   \* files enqueue has been called for
  resolved,  \* the paths found, in order
  pending,   \* the paths still to be read
  entries,   \* the files read: path, tokens, whether the phase names the path
  outcome,   \* "resolving", "reading", or the result
  disk,      \* the files that exist
  touched,   \* the files that others have created or deleted
  payload    \* the entries of a result that is ok, and the tokens it reports

contextVars ==
  <<blocking, resolver, stack, visited, resolved, pending, entries, outcome, disk, touched, payload>>

-----------------------------------------------------------------------------
(* Resolving: a depth-first walk over imports                              *)

\* TypeScript and JavaScript are parsed; C and Python are searched for one form.
Forms == [ts |-> {"import", "export", "require", "dynamic"}, c |-> {"include"}, py |-> {"from"}, none |-> {}]
ExtractImports(f) == Only(Statements[f], {i \in DOMAIN Statements[f] : Statements[f][i].form \in Forms[LanguageOf[f]]})

\* The bases an import may stand for: the targets of the aliases it matches,
\* then, unless it is bare, what it says itself.
ResolvePathAlias(import) ==
  FlattenSeq([i \in DOMAIN Aliases |-> IF import.spec \in Aliases[i].specs THEN Aliases[i].targets ELSE << >>])
ImportBases(import) == ResolvePathAlias(import) \o (IF import.base = "bare" THEN << >> ELSE <<import.base>>)

\* The first that is on the disk when the import's turn comes, if one is.
TryResolveFile(bases) ==
  LET candidates == FlattenSeq([i \in DOMAIN bases |-> Variants[bases[i]]])
  IN  {f \in disk : \E i \in DOMAIN candidates :
         candidates[i] = f /\ \A j \in 1..(i - 1) : candidates[j] \notin disk}

\* The phase's own paths are calls as they are, an import is a call when it is found.
Explicitly == [i \in DOMAIN ContextFiles |-> [depth |-> 0, path |-> ContextFiles[i]]]
Following(f, depth) ==
  LET imports == ExtractImports(f)
  IN  [i \in DOMAIN imports |-> [depth |-> depth, bases |-> ImportBases(imports[i])]]

Passed(f, depth) == depth > MaxDepth \/ KindOf[f] = "ignored" \/ f \in visited

Enqueue ==
  /\ outcome = "resolving" /\ resolver = "ast" /\ stack # << >>
  /\ LET call  == Head(stack)
         found == IF call.depth = 0 THEN {call.path} ELSE TryResolveFile(call.bases)
     IN \/ /\ \A path \in found : Passed(FileOf[path], call.depth)
           /\ stack' = Tail(stack)
           /\ UNCHANGED <<visited, resolved>>
        \/ \E path \in found :
             LET f == FileOf[path] IN
             /\ ~Passed(f, call.depth)
             /\ visited' = visited \cup {f}
             /\ IF f \in disk
                THEN /\ resolved' = Append(resolved, path)
                     /\ stack' = Following(f, call.depth + 1) \o Tail(stack)
                ELSE stack' = Tail(stack) /\ UNCHANGED resolved
  /\ UNCHANGED <<blocking, resolver, pending, entries, outcome, disk, touched, payload>>

Resolved ==
  /\ outcome = "resolving"
  /\ resolver = "ast" => stack = << >>
  /\ pending' = IF resolver = "ast" THEN resolved ELSE ContextFiles
  /\ outcome' = "reading"
  /\ UNCHANGED <<blocking, resolver, stack, visited, resolved, entries, disk, touched, payload>>

-----------------------------------------------------------------------------
(* Reading *)

Explicit(path) == path \in Range(ContextFiles)
FileExists(f) == f \in disk
IsBinary(f) == KindOf[f] = "binary"

\* A value after one of the known names counts unless it is a placeholder, a
\* value of high entropy unless it has the form of a known key.  The assembly
\* passes no allowlist.
Scan(f) ==
  {s \in Secrets[f] :
    \/ s.kind \in {"api_key", "private_key"}
    \/ s.kind = "env" /\ ~s.placeholder
    \/ s.kind = "entropy" /\ ~s.key}
ScanWithBlocking(f) == blocking /\ Scan(f) # {}

ReadFile ==
  /\ outcome = "reading" /\ pending # << >>
  /\ pending' = Tail(pending)
  /\ LET path == Head(pending)
         f    == FileOf[path]
     IN \/ /\ KindOf[f] = "outside" \/ (FileExists(f) /\ KindOf[f] \in {"folder", "huge"})
           /\ UNCHANGED <<entries, outcome>>
        \/ /\ KindOf[f] # "outside" /\ ~FileExists(f)
           /\ outcome' = "FILE_NOT_FOUND"
           /\ UNCHANGED entries
        \/ /\ FileExists(f) /\ IsBinary(f)
           /\ outcome' = "BINARY_FILE"
           /\ UNCHANGED entries
        \/ /\ FileExists(f) /\ KindOf[f] \in {"text", "ignored"} /\ ScanWithBlocking(f)
           /\ outcome' = "SECRETS_BLOCKED"
           /\ UNCHANGED entries
        \/ /\ FileExists(f) /\ KindOf[f] \in {"text", "ignored"} /\ ~ScanWithBlocking(f)
           /\ entries' = Append(entries,
                [path |-> path, tokens |-> Tokens[f] + Wrapper, explicit |-> Explicit(path)])
           /\ UNCHANGED outcome
  /\ UNCHANGED <<blocking, resolver, stack, visited, resolved, disk, touched, payload>>

-----------------------------------------------------------------------------
(* Pruning *)

TotalTokens(es) == FoldLeft(LAMBDA sum, e : sum + e.tokens, 0, es)

\* Mutant: any entry may be dropped.
DroppableAny(es) == DOMAIN es

Droppable(es) == {i \in DOMAIN es : ~es[i].explicit}

\* The largest goes first, among equals the first found: what is dropped no
\* later than entry i.  As many are dropped as it takes for the rest to fit.
NoLater(es, i) ==
  {j \in Droppable(es) : es[j].tokens > es[i].tokens \/ (es[j].tokens = es[i].tokens /\ j <= i)}

WithoutFirst(es, k) ==
  Only(es, {i \in DOMAIN es : i \in Droppable(es) => Cardinality(NoLater(es, i)) > k})

DropDiscovered(es) ==
  LET n    == Cardinality(Droppable(es))
      fits == {k \in 0..n : TotalTokens(WithoutFirst(es, k)) <= Budget}
  IN  WithoutFirst(es, IF fits = {} THEN n ELSE CHOOSE k \in fits : \A l \in fits : k <= l)

\* Languages with braces only.
StripFunctionBodies(f) == IF LanguageOf[f] \in {"ts", "c"} THEN Stripped[f] ELSE Tokens[f]

\* An entry whose content changes is counted again without its markers.
StripBodies(es) ==
  [i \in DOMAIN es |->
    LET f == FileOf[es[i].path]
    IN  IF StripFunctionBodies(f) < Tokens[f] THEN [es[i] EXCEPT !.tokens = StripFunctionBodies(f)] ELSE es[i]]

Truncate(es) ==
  LET share == Budget \div Len(es)
  IN  [i \in DOMAIN es |->
        IF es[i].tokens > share THEN [es[i] EXCEPT !.tokens = share + Marker] ELSE es[i]]

\* Entries made here have no mode, so the degradation cascade that comes after
\* truncation finds nothing to do.
Prune(es) ==
  LET left     == DropDiscovered(es)
      stripped == StripBodies(left)
  IN  IF TotalTokens(left) <= Budget THEN left
      ELSE IF TotalTokens(stripped) <= Budget THEN stripped
      ELSE Truncate(stripped)

\* The map of the repository, a line for each file up to a limit, is made last
\* and counted on top.
RepoMapTokens ==
  LET listed == Cardinality({f \in disk : KindOf[f] \notin {"ignored", "outside"}})
  IN  IF listed > MaxEntries THEN MaxEntries ELSE listed

Pruned ==
  /\ outcome = "reading" /\ pending = << >>
  /\ LET es == Prune(entries) IN
     \/ /\ TotalTokens(es) <= Budget
        /\ outcome' = "ok"
        /\ payload' = [entries |-> es, tokens |-> TotalTokens(es) + RepoMapTokens]
        /\ UNCHANGED <<resolver, stack, visited, resolved, entries>>
     \/ /\ TotalTokens(es) > Budget /\ resolver = "ast"  \* once more, with the phase's own files
        /\ resolver' = "explicit"
        /\ outcome' = "resolving"
        /\ entries' = << >> /\ resolved' = << >>
        /\ UNCHANGED <<stack, visited, payload>>
     \/ /\ TotalTokens(es) > Budget /\ resolver = "explicit"
        /\ outcome' = "TOKEN_OVER_BUDGET"
        /\ UNCHANGED <<resolver, stack, visited, resolved, entries, payload>>
  /\ UNCHANGED <<blocking, pending, disk, touched>>

-----------------------------------------------------------------------------
Running == outcome \in {"resolving", "reading"}

ChangeBlocking ==
  /\ Running
  /\ blocking' = ~blocking
  /\ UNCHANGED <<resolver, stack, visited, resolved, pending, entries, outcome, disk, touched, payload>>

OtherWorkerEdits(f) ==
  /\ Running /\ Cardinality(touched) < MaxEdits
  /\ f \notin touched
  /\ touched' = touched \cup {f}
  /\ disk' = IF f \in disk THEN disk \ {f} ELSE disk \cup {f}
  /\ UNCHANGED <<blocking, resolver, stack, visited, resolved, pending, entries, outcome, payload>>

ContextInit ==
  /\ blocking \in BOOLEAN /\ resolver = "ast"
  /\ stack = Explicitly
  /\ visited = {} /\ resolved = << >> /\ pending = << >> /\ entries = << >>
  /\ outcome = "resolving"
  /\ disk \in SUBSET SourceFiles /\ touched = {}
  /\ payload = [entries |-> << >>, tokens |-> 0]

ContextNext ==
  \/ Enqueue \/ Resolved \/ ReadFile \/ Pruned \/ ChangeBlocking
  \/ \E f \in SourceFiles : OtherWorkerEdits(f)

ContextSpec == ContextInit /\ [][ContextNext]_contextVars

-----------------------------------------------------------------------------
\* A file the phase names by its canonical path is in the payload of every
\* assembly that succeeds, cut down perhaps but never dropped for what it
\* imports: through the walk that may meet it first as an import, files that
\* come and go, the pruning of the largest, and the second try.
ExplicitFilesStay ==
  outcome = "ok" =>
    \A f \in SourceFiles \ touched :
      Explicit(f) /\ f \in disk /\ KindOf[f] = "text" =>
        \E i \in DOMAIN payload.entries : FileOf[payload.entries[i].path] = f
=============================================================================
