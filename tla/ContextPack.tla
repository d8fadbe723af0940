---------------------------- MODULE ContextPack ----------------------------
(* The context pack made before a phase is dispatched: the handoffs of its *)
(* completed dependencies, its files, each in a mode, what they import, and *)
(* a manifest of every decision.  The pack is cut to the budget as far as   *)
(* it can be.  Every file operation is an await, and other workers write    *)
(* meanwhile.                                                               *)
EXTENDS Naturals, FiniteSets, SequencesExt, Listing

CONSTANTS
  Dependencies,  \* phase.depends_on, a sequence of phases
  Stored,        \* their handoffs: what each changed, [path, regions] in order
  PackFiles,     \* phase.context_files
  PackImports,   \* the imports in each file, in order: [relative, inside, ext, named, typed]
  Limits,        \* budgets the pack may be given, 0 included
  MaxRewrites    \* bound: what others do to files

\* A file has under 200 lines, under 500, or more.
Lengths == {"short", "middle", "long"}
ContentTokens == [l \in Lengths |-> CASE l = "short" -> 1 [] l = "middle" -> 2 [] l = "long" -> 4]
EntryTokens == [metadata |-> 1, patch |-> 1, slice |-> 3]

ChangedBy(d) == {Stored[d][i].path : i \in DOMAIN Stored[d]}
FoundImports == UNION {Range(PackImports[f]) : f \in DOMAIN PackImports}
PackPaths ==
  Range(PackFiles) \cup (UNION {ChangedBy(d) : d \in DOMAIN Stored})
  \cup {i.named : i \in FoundImports} \cup {i.typed : i \in FoundImports}

ASSUME PackAssumption ==
  /\ PackFiles \in Seq(PackPaths)
  /\ Dependencies \in Seq(Range(Dependencies))
  /\ \A d \in DOMAIN Stored : Stored[d] \in Seq([path : PackPaths, regions : BOOLEAN])
  /\ PackPaths \subseteq DOMAIN PackImports
  /\ \A f \in DOMAIN PackImports : PackImports[f] \in Seq(Range(PackImports[f]))
  /\ Limits \subseteq Nat /\ MaxRewrites \in Nat

VARIABLES
  packStep,    \* "start", "stat", "select", "read", "scan", "access", "done" or "failed"
  order,       \* what the phase asks: [completed, taskId, budget, whole]
  handoffs,    \* the packets: [from, missing, changes, tokens]
  targets,     \* the files to be looked at
  todo,        \* those of the running step still to come
  selected,    \* the mode chosen for the first of them
  contexts,    \* fileContexts: [path, mode, tokens]
  decisions,   \* fileDecisions: [path, mode, tokens, omitted]
  scanned,     \* imports found
  imported,    \* includedDependencies and their decisions: [path, tokens, included]
  manifest,    \* what the database is given, with the pack's own part
  folder,      \* the workspace: the length of each file, "gone" or "folder"
  rewrites

packVars == <<packStep, order, handoffs, targets, todo, selected, contexts, decisions,
              scanned, imported, manifest, folder, rewrites>>

\* The tokens of all entries, counted one by one.
SumTokens(es) == Cardinality(UNION {{<<i, t>> : t \in 1..es[i].tokens} : i \in DOMAIN es})

-----------------------------------------------------------------------------
(* Handoffs *)

\* Handoffs are stored under the name of the session's directory, and asked
\* for under the runbook's project_id or under that name.
Packet(d) ==
  IF order.taskId = "session" /\ d \in DOMAIN Stored
  THEN [from |-> d, missing |-> FALSE, changes |-> Stored[d], tokens |-> 1]
  ELSE [from |-> d, missing |-> TRUE, changes |-> << >>, tokens |-> 0]

Changes == FlattenSeq([i \in DOMAIN handoffs |-> handoffs[i].changes])

\* changedFileMap: the last handoff that names the file; NoChange when none does.
NoChange == [path |-> "", regions |-> FALSE]
Upstream(path) ==
  LET named == SelectSeq(Changes, LAMBDA c : c.path = path)
  IN  IF named = << >> THEN NoChange ELSE Last(named)

\* The files in the order in which they are named: by the phase, then by one
\* handoff after the other; each where it is named first.
Places(packets) ==
  {<<0, i>> : i \in DOMAIN PackFiles}
  \cup UNION {{<<k, i>> : i \in DOMAIN packets[k].changes} : k \in DOMAIN packets}
NameAt(packets, p) == IF p[1] = 0 THEN PackFiles[p[2]] ELSE packets[p[1]].changes[p[2]].path
NoLaterPlace(q, p) == q[1] < p[1] \/ (q[1] = p[1] /\ q[2] <= p[2])
FirstPlaces(packets) ==
  {p \in Places(packets) : \A q \in Places(packets) :
     NameAt(packets, q) = NameAt(packets, p) => NoLaterPlace(p, q)}
TargetFiles(packets) ==
  LET first == FirstPlaces(packets)
  IN  [n \in 1..Cardinality(first) |->
        NameAt(packets, CHOOSE p \in first : Cardinality({q \in first : NoLaterPlace(q, p)}) = n)]

GatherHandoffs ==
  /\ packStep = "start" /\ order.budget > 0
  /\ LET upstream == Only(Dependencies, {i \in DOMAIN Dependencies : Dependencies[i] \in order.completed})
         packets  == [i \in DOMAIN upstream |-> Packet(upstream[i])]
     IN  handoffs' = packets /\ targets' = TargetFiles(packets)
  /\ todo' = targets'
  /\ packStep' = "stat"
  /\ UNCHANGED <<order, selected, contexts, decisions, scanned, imported, manifest, folder, rewrites>>

RefuseBudget ==
  /\ packStep = "start" /\ order.budget = 0
  /\ packStep' = "failed"
  /\ UNCHANGED <<order, handoffs, targets, todo, selected, contexts, decisions, scanned,
                 imported, manifest, folder, rewrites>>

-----------------------------------------------------------------------------
(* Files *)

StatFile ==
  /\ packStep = "stat" /\ todo # << >>
  /\ IF folder[Head(todo)] = "folder"
     THEN todo' = Tail(todo) /\ UNCHANGED packStep
     ELSE packStep' = "select" /\ UNCHANGED todo
  /\ UNCHANGED <<order, handoffs, targets, selected, contexts, decisions, scanned, imported,
                 manifest, folder, rewrites>>

\* A file an upstream phase changed is a same-file continuation, so that its
\* patch, offered for other files only, is never chosen.
Mode(path) ==
  LET upstream == Upstream(path)
      same     == upstream # NoChange
      length   == folder[path]
  IN  CASE length \in {"gone", "folder"} -> "metadata"
        [] length = "short" -> "full"
        [] length # "short" /\ length \in Lengths /\ order.whole ->
             IF 5 * ContentTokens[length] > 2 * order.budget /\ upstream.regions THEN "slice" ELSE "full"
        [] length = "middle" /\ ~order.whole -> IF same THEN "full" ELSE "metadata"
        [] length = "long" /\ ~order.whole -> IF same /\ upstream.regions THEN "slice" ELSE "metadata"

SelectMode ==
  /\ packStep = "select"
  /\ selected' = Mode(Head(todo))
  /\ packStep' = "read"
  /\ UNCHANGED <<order, handoffs, targets, todo, contexts, decisions, scanned, imported,
                 manifest, folder, rewrites>>

\* The file is read again for its entry; one that has gone is left out.
Materialize ==
  /\ packStep = "read"
  /\ LET path   == Head(todo)
         length == folder[path]
         lost   == selected # "metadata" /\ length \notin Lengths
         tokens == IF lost THEN 0
                   ELSE IF selected = "full" THEN 1 + ContentTokens[length] ELSE EntryTokens[selected]
     IN  /\ contexts' = IF lost THEN contexts
                        ELSE Append(contexts, [path |-> path, mode |-> selected, tokens |-> tokens])
         /\ decisions' = Append(decisions,
              [path |-> path, mode |-> selected, tokens |-> tokens, omitted |-> lost])
  /\ todo' = Tail(todo)
  /\ packStep' = "stat"
  /\ UNCHANGED <<order, handoffs, targets, selected, scanned, imported, manifest, folder, rewrites>>

-----------------------------------------------------------------------------
(* Imports *)

StartScan ==
  /\ packStep = "stat" /\ todo = << >>
  /\ todo' = targets
  /\ packStep' = "scan"
  /\ UNCHANGED <<order, handoffs, targets, selected, contexts, decisions, scanned, imported,
                 manifest, folder, rewrites>>

\* `named' is the file as the import has it, `typed' the same in TypeScript:
\* a .js is taken for it without a look, and so is what has no extension.
ResolveImport(import) == IF import.ext \in {".js", ".mjs", ""} THEN import.typed ELSE import.named
ExtractedImports(path) ==
  LET found == PackImports[path]
      own   == Only(found, {i \in DOMAIN found : found[i].relative /\ found[i].inside})
  IN  [i \in DOMAIN own |-> ResolveImport(own[i])]

\* A JavaScript Set: a name already in it stays where it is.
Adding(found, names) ==
  LET all == found \o names
  IN  Only(all, {i \in DOMAIN all : \A j \in DOMAIN all : all[j] = all[i] => i <= j})

ScanImports ==
  /\ packStep = "scan" /\ todo # << >>
  /\ LET imports == ExtractedImports(Head(todo))
         others  == Only(imports, {i \in DOMAIN imports : imports[i] \notin Range(targets)})
     IN  scanned' = IF folder[Head(todo)] \in Lengths THEN Adding(scanned, others) ELSE scanned
  /\ todo' = Tail(todo)
  /\ UNCHANGED <<packStep, order, handoffs, targets, selected, contexts, decisions, imported,
                 manifest, folder, rewrites>>

StartAccess ==
  /\ packStep = "scan" /\ todo = << >>
  /\ todo' = scanned
  /\ packStep' = "access"
  /\ UNCHANGED <<order, handoffs, targets, selected, contexts, decisions, scanned, imported,
                 manifest, folder, rewrites>>

AccessImport ==
  /\ packStep = "access" /\ todo # << >>
  /\ LET there == folder[Head(todo)] # "gone"
     IN  imported' = Append(imported,
           [path |-> Head(todo), tokens |-> IF there THEN 1 ELSE 0, included |-> there])
  /\ todo' = Tail(todo)
  /\ UNCHANGED <<packStep, order, handoffs, targets, selected, contexts, decisions, scanned,
                 manifest, folder, rewrites>>

-----------------------------------------------------------------------------
(* Pruning and the manifest *)

OverBudget(es) == SumTokens(handoffs) + SumTokens(es) + SumTokens(imported) > order.budget

\* Metadata goes first, then patches, each from the end: what is gone when entry i goes.
Prunable == {i \in DOMAIN contexts : contexts[i].mode \in {"metadata", "patch"}}
GoneBy(i) ==
  {j \in Prunable : \/ contexts[j].mode = contexts[i].mode /\ j >= i
                    \/ contexts[j].mode = "metadata" /\ contexts[i].mode = "patch"}
KeptAfter(k) == {i \in DOMAIN contexts : i \in Prunable => Cardinality(GoneBy(i)) > k}

\* As many as it takes, or all.
Removals ==
  LET n      == Cardinality(Prunable)
      enough == {k \in 0..n : ~OverBudget(Only(contexts, KeptAfter(k)))}
  IN  IF enough = {} THEN n ELSE CHOOSE k \in enough : \A l \in enough : k <= l

\* Mutant: the decision keeps saying that the entry is in the pack.
OmitSilently(paths) == decisions

\* The decision on an entry that is removed becomes an omission.
Omit(paths) ==
  [d \in DOMAIN decisions |->
    IF decisions[d].path \in paths
    THEN [decisions[d] EXCEPT !.omitted = TRUE, !.tokens = 0] ELSE decisions[d]]

\* The row of the manifest in context_manifests; every build has an id of its own.
Upsert(totals) == manifest' = totals

FinishPack ==
  /\ packStep = "access" /\ todo = << >>
  /\ LET kept == KeptAfter(Removals)
     IN  /\ contexts' = Only(contexts, kept)
         /\ decisions' = Omit({contexts[i].path : i \in DOMAIN contexts \ kept})
         /\ Upsert([handoffs |-> SumTokens(handoffs), files |-> SumTokens(contexts'),
                    dependencies |-> SumTokens(imported)])
  /\ packStep' = "done"
  /\ UNCHANGED <<order, handoffs, targets, todo, selected, scanned, imported, folder, rewrites>>

-----------------------------------------------------------------------------
\* Another worker creates, rewrites or deletes a file.
OtherWorkerWrites(path, length) ==
  /\ packStep \notin {"done", "failed"} /\ rewrites < MaxRewrites
  /\ folder[path] \notin {length, "folder"}
  /\ folder' = [folder EXCEPT ![path] = length]
  /\ rewrites' = rewrites + 1
  /\ UNCHANGED <<packStep, order, handoffs, targets, todo, selected, contexts, decisions,
                 scanned, imported, manifest>>

PackInit ==
  /\ packStep = "start"
  /\ order \in [completed : SUBSET Range(Dependencies), taskId : {"session", "project"},
                budget : Limits, whole : BOOLEAN]
  /\ handoffs = << >> /\ targets = << >> /\ todo = << >> /\ selected = "metadata"
  /\ contexts = << >> /\ decisions = << >> /\ scanned = << >> /\ imported = << >>
  /\ manifest = [handoffs |-> 0, files |-> 0, dependencies |-> 0]
  /\ folder \in [PackPaths -> Lengths \cup {"gone", "folder"}]
  /\ rewrites = 0

PackNext ==
  \/ GatherHandoffs \/ RefuseBudget \/ StatFile \/ SelectMode \/ Materialize
  \/ StartScan \/ ScanImports \/ StartAccess \/ AccessImport \/ FinishPack
  \/ \E path \in PackPaths, length \in Lengths \cup {"gone"} : OtherWorkerWrites(path, length)

PackSpec == PackInit /\ [][PackNext]_packVars

-----------------------------------------------------------------------------
\* The stored manifest tells what is in the pack, whatever happened to the
\* files while it was made and whatever was pruned: a file is decided upon at
\* most once, is in the pack exactly when its decision does not say omitted, in
\* the mode the decision names, and the totals are the sums of the decisions.
\* And a pack over its budget holds nothing that could still have been pruned.
ManifestTellsPack ==
  packStep = "done" =>
    /\ \A i, j \in DOMAIN decisions : decisions[i].path = decisions[j].path => i = j
    /\ {[path |-> e.path, mode |-> e.mode] : e \in Range(contexts)}
         = {[path |-> d.path, mode |-> d.mode] : d \in {x \in Range(decisions) : ~x.omitted}}
    /\ manifest.files = SumTokens(decisions)
    /\ manifest.handoffs + manifest.files + manifest.dependencies > order.budget =>
         \A e \in Range(contexts) : e.mode \notin {"metadata", "patch"}
=============================================================================
