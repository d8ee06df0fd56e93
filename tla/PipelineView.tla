---------------------------- MODULE PipelineView ----------------------------
(***************************************************************************)
(* `abasift vis <yaml>`: PipelineView of vis/server.py, the pages that     *)
(* poll it, and somebody who edits the YAML and the kernels it names.      *)
(* Every request is a thread of its own over the one PipelineView, which   *)
(* has no lock: what a request reads of a file, of _watched or of          *)
(* sys.modules, it reads at the moment it does.                            *)
(*                                                                         *)
(* A file is [ver, ok]: which edit of it this is, its mtime, and whether   *)
(* it parses, validates or can be executed.  A kernel is named by the      *)
(* module the YAML imports it from, which is the one that defines it or    *)
(* the package that re-exports it from there.  A class is the version of   *)
(* the source that defined it.                                             *)
(***************************************************************************)
EXTENDS Integers, FiniteSets, Maps

CONSTANTS
    Kernels,      \* the kernels a YAML may name
    Yamls,        \* the sets of kernels it may name; a broken one names none
    ImportedFrom, \* ImportedFrom[k]: the module in k's dotted path
    DefinedIn,    \* DefinedIn[k]: its class's __module__
    Package,      \* Package[m]: the package module m is in, m itself if it is in none
    Pages,        \* the open pages
    ErrorPage,    \* what error_body renders
    MaxEdits, MaxRestarts    \* bounds

Modules == DOMAIN Package

\* "A package that re-exports a changed submodule" (server.py 90): what the YAML
\* imports a class from is the module that defines it or that module's package.
\* Packages are one level deep.
ASSUME ViewAssumption ==
    /\ Yamls \subseteq SUBSET Kernels
    /\ Package \in [Modules -> Modules]
    /\ \A m \in Modules : Package[Package[m]] = Package[m]
    /\ \A k \in Kernels : /\ DefinedIn[k] \in Modules
                          /\ ImportedFrom[k] \in {DefinedIn[k], Package[DefinedIn[k]]}
    /\ ErrorPage \notin [yaml : Nat, class : UNION {[K -> Nat] : K \in SUBSET Kernels}]

VARIABLES
    yaml,       \* [ver, kernels]: the YAML file, naming no kernel while it is broken
    source,     \* module -> its file
    loaded,     \* sys.modules: module -> the classes it holds, by the module that defines them
    watched,    \* _watched: module -> the version that was there when we last looked
    request,    \* page -> its request: [at, ...], at = "none" when there is none
    page,       \* page -> what it shows, the token it holds, whether it was opened, and
                \* whether it has pulled since, from the process that now serves
    unseen,     \* history: the modules whose last edit no request compared or could load
    skipped,    \* history: those that since then a request did not reload, as another one was
                \* reloading them
    edits, restarts

vars == <<yaml, source, loaded, watched, request, page, unseen, skipped, edits, restarts>>

missed == <<unseen, skipped>>
disk == <<yaml, source, missed, edits, restarts>>
view == <<loaded, watched>>

Idle == [at |-> "none"]

Init ==
    /\ \E K \in Yamls : yaml = [ver |-> 0, kernels |-> K]
    /\ \E ok \in [Modules -> BOOLEAN] : source = [m \in Modules |-> [ver |-> 0, ok |-> ok[m]]]
    /\ loaded = EmptyMap
    /\ watched = EmptyMap
    /\ request = [p \in Pages |-> Idle]
    /\ page = [p \in Pages |-> [shown |-> ErrorPage, token |-> <<>>, opened |-> FALSE, pulled |-> FALSE]]
    /\ unseen = {} /\ skipped = {}
    /\ edits = 0 /\ restarts = 0

-----------------------------------------------------------------------------
(* Modules *)

\* The modules whose classes m holds; those m re-exports from.
Classes(m) == {DefinedIn[k] : k \in {k \in Kernels : m \in {ImportedFrom[k], DefinedIn[k]}}}
Children(m) == Classes(m) \ {m}

ModuleMtime(m) == source[m].ver

Stamps(M) == [m \in M |-> ModuleMtime(m)]

\* Executing m's source: it defines its own classes anew, and takes those its
\* children hold.
Body(mods, m) == [d \in Classes(m) |-> IF d = m THEN source[m].ver ELSE mods[d][d]]

Executed(mods, M) == Override(mods, [m \in M |-> Body(mods, m)])

\* What the first import of m may come to, its package being there: the
\* children it is missing are executed first; where one of these or m fails, m
\* does not stay in sys.modules, what it had imported before does.
FirstImports(mods, m) ==
    LET missing == Children(m) \ DOMAIN mods
        sound   == {c \in missing : source[c].ok}
    IN  IF source[m].ok /\ missing = sound THEN {Executed(Executed(mods, missing), {m})}
        ELSE {Executed(mods, C) : C \in SUBSET sound}

\* import_module: what is in sys.modules is not executed again, and a package is
\* imported before what is in it.
ImportsOf(mods, m) ==
    IF m \in DOMAIN mods THEN {mods}
    ELSE IF Package[m] \in DOMAIN mods \cup {m} THEN FirstImports(mods, m)
    ELSE UNION {IF Package[m] \in DOMAIN n /\ m \notin DOMAIN n THEN FirstImports(n, m) ELSE {n} :
                    n \in FirstImports(mods, Package[m])}

\* It raises where one of the two is missing afterwards.
ImportRaises(m) == m \notin DOMAIN loaded /\ ~({m, Package[m]} \subseteq DOMAIN loaded')

-----------------------------------------------------------------------------
(* PipelineView *)

\* state(): the stamps of all that is watched.
State == <<yaml.ver, Stamps(DOMAIN watched)>>

At(p, step) == request[p].at = step
Goes(p, r) == request' = [request EXCEPT ![p] = r]

\* bug: an error page is served without the token, and so never polls
ErrorsDoNotPoll(p) ==
    /\ At(p, "none") /\ (page[p].opened => State # page[p].token /\ page[p].shown # ErrorPage)
    /\ Goes(p, [at |-> "look", token |-> State])
    /\ UNCHANGED <<disk, view, page>>

\* The first GET / of a page, or a poll that finds the token moved.
Ask(p) ==
    /\ At(p, "none") /\ (page[p].opened => State # page[p].token)
    /\ Goes(p, [at |-> "look", token |-> State])
    /\ UNCHANGED <<disk, view, page>>

ChangedOnly == {m \in DOMAIN watched : ModuleMtime(m) # watched[m]}    \* bug: not their packages

\* Those whose source changed, and the packages they are in.
Targets ==
    LET changed == {m \in DOMAIN watched : ModuleMtime(m) # watched[m]}
    IN  changed \cup {w \in DOMAIN watched : \E m \in changed : Package[m] = w}

Look(p) ==
    /\ At(p, "look")
    /\ Goes(p, IF Targets = {} THEN [at |-> "yaml", token |-> request[p].token]
               ELSE [at |-> "reload", token |-> request[p].token, todo |-> Targets])
    /\ UNCHANGED <<disk, view, page>>

\* Deepest first.
Deepest(m, M) == m \in M /\ \A c \in M : Package[c] = m => c = m

\* On to the next module.  Whether or not this one was loaded, it will be stamped.
GoesOn(p, todo) ==
    Goes(p, IF todo = {} THEN [at |-> "stamp", token |-> request[p].token]
            ELSE [at |-> "reload", token |-> request[p].token, todo |-> todo])

\* importlib's _RELOADING.
Reloading(m) == \E q \in Pages : At(q, "execute") /\ request[q].module = m

\* importlib.reload of a module that another thread is reloading returns at once.
SkipReload(p) ==
    /\ At(p, "reload")
    /\ \E m \in request[p].todo :
          /\ Deepest(m, request[p].todo) /\ Reloading(m)
          /\ skipped' = skipped \cup {m}
          /\ GoesOn(p, request[p].todo \ {m})
    /\ UNCHANGED <<yaml, source, view, page, unseen, edits, restarts>>

\* It raises where the package is not there.
ReloadRaises(p) ==
    /\ At(p, "reload")
    /\ \E m \in request[p].todo :
          /\ Deepest(m, request[p].todo) /\ ~Reloading(m) /\ Package[m] \notin DOMAIN loaded \cup {m}
          /\ unseen' = unseen \cup {m}
          /\ GoesOn(p, request[p].todo \ {m})
    /\ UNCHANGED <<yaml, source, view, page, skipped, edits, restarts>>

\* Otherwise it reads the source and executes it in the module that is there ...
Reload(p) ==
    /\ At(p, "reload")
    /\ \E m \in request[p].todo :
          /\ Deepest(m, request[p].todo) /\ ~Reloading(m) /\ Package[m] \in DOMAIN loaded \cup {m}
          /\ Goes(p, [at |-> "execute", token |-> request[p].token, todo |-> request[p].todo \ {m},
                      module |-> m, src |-> source[m], unbound |-> Classes(m)])
    /\ UNCHANGED <<disk, view, page>>

\* ... which binds one class after the other anew, in view of everybody.
Bind(p) ==
    /\ At(p, "execute")
    /\ \E d \in request[p].unbound :
          LET m == request[p].module IN
          /\ loaded' = [loaded EXCEPT ![m][d] = IF d = m THEN request[p].src.ver ELSE loaded[d][d]]
          /\ request' = [request EXCEPT ![p].unbound = @ \ {d}]
    /\ UNCHANGED <<disk, watched, page>>

\* A body that fails leaves the others as they were.
Reloaded(p) ==
    /\ At(p, "execute") /\ (request[p].src.ok => request[p].unbound = {})
    /\ GoesOn(p, request[p].todo)
    /\ UNCHANGED <<disk, view, page>>

\* After the reloads the stamps are taken again, of what was watched then; what
\* another request has written to _watched meanwhile is lost.
Stamp(p) ==
    /\ At(p, "stamp")
    /\ Goes(p, [at |-> "restamp", token |-> request[p].token, stamps |-> Stamps(DOMAIN watched)])
    /\ UNCHANGED <<disk, view, page>>

Restamp(p) ==
    /\ At(p, "restamp")
    /\ watched' = request[p].stamps
    /\ Goes(p, [at |-> "yaml", token |-> request[p].token])
    /\ UNCHANGED <<disk, loaded, page>>

\* Pipeline.from_yaml reads the file ...
ReadYaml(p) ==
    /\ At(p, "yaml")
    /\ Goes(p, IF yaml.kernels # {} THEN [at |-> "import", token |-> request[p].token, yaml |-> yaml,
                                          todo |-> yaml.kernels]
               ELSE [at |-> "answer", token |-> request[p].token, shown |-> ErrorPage])
    /\ UNCHANGED <<disk, view, page>>

\* ... and validates what it names, a kernel at a time.
ImportKernel(p) ==
    /\ At(p, "import")
    /\ \E k \in request[p].todo :
          LET m == ImportedFrom[k] IN
          /\ loaded' \in ImportsOf(loaded, m)
          /\ Goes(p, IF ImportRaises(m)
                     THEN [at |-> "answer", token |-> request[p].token, shown |-> ErrorPage]
                     ELSE IF request[p].todo = {k}
                          THEN [at |-> "describe", token |-> request[p].token,
                                yaml |-> request[p].yaml]
                          ELSE [request[p] EXCEPT !.todo = @ \ {k}])
    /\ UNCHANGED <<disk, watched, page>>

ToWatch(K) == {ImportedFrom[k] : k \in K} \cup {DefinedIn[k] : k \in K}

\* describe imports them again and inspects the classes it gets.
Describe(p) ==
    LET K == request[p].yaml.kernels IN
    /\ At(p, "describe")
    /\ Goes(p, [at |-> "watch", token |-> request[p].token, yaml |-> request[p].yaml,
                shown |-> [yaml |-> request[p].yaml.ver,
                           class |-> [k \in K |-> loaded[ImportedFrom[k]][DefinedIn[k]]]]])
    /\ UNCHANGED <<disk, view, page>>

\* _watch: the stamps of their modules.
Watch(p) ==
    /\ At(p, "watch")
    /\ watched' = Stamps(ToWatch(request[p].yaml.kernels) \cap DOMAIN loaded)
    /\ Goes(p, [at |-> "answer", token |-> request[p].token, shown |-> request[p].shown])
    /\ UNCHANGED <<disk, loaded, page>>

\* A page keeps the token it asked with; the first one comes with the token of
\* the end of the request.
TokenAfter(p) == IF page[p].opened THEN request[p].token ELSE State

Answer(p) ==
    /\ At(p, "answer")
    /\ page' = [page EXCEPT ![p] =
          [shown |-> request[p].shown, opened |-> TRUE, pulled |-> page[p].opened,
           token |-> TokenAfter(p)]]
    /\ Goes(p, Idle)
    /\ UNCHANGED <<disk, view>>

\* The connection is gone: the page stays as it is and polls again.
Lost(p) ==
    /\ At(p, "answer")
    /\ Goes(p, Idle)
    /\ UNCHANGED <<disk, view, page>>

Serve(p) == \/ Look(p) \/ SkipReload(p) \/ ReloadRaises(p) \/ Reload(p) \/ Bind(p) \/ Reloaded(p)
            \/ Stamp(p) \/ Restamp(p) \/ ReadYaml(p) \/ ImportKernel(p) \/ Describe(p) \/ Watch(p)

-----------------------------------------------------------------------------
(* The world *)

\* Some request has compared the sources and not stamped them yet.
Comparing == \E p \in Pages : request[p].at \notin {"none", "look", "answer"}

\* What every request compares as long as the YAML stays as it is.
Seen == DOMAIN watched \cap ToWatch(yaml.kernels)

\* Edited here, and the packages that hold its class.
Concerned(m) == {m} \cup {w \in Modules : m \in Children(w)}

EditModule(m, ok) ==
    /\ edits < MaxEdits
    /\ source' = [source EXCEPT ![m] = [ver |-> @.ver + 1, ok |-> ok]]
    /\ unseen' = IF Comparing \/ m \notin Seen THEN unseen \cup {m}
                 ELSE (unseen \ Concerned(m)) \cup (Concerned(m) \ Seen)
    /\ skipped' = IF Comparing \/ m \notin Seen THEN skipped ELSE skipped \ Concerned(m)
    /\ edits' = edits + 1
    /\ UNCHANGED <<yaml, loaded, watched, request, page, restarts>>

EditYaml(K) ==
    /\ edits < MaxEdits
    /\ yaml' = [ver |-> yaml.ver + 1, kernels |-> K]
    /\ edits' = edits + 1
    /\ UNCHANGED <<source, loaded, watched, request, page, missed, restarts>>

\* ctrl-c and again, on the same port: the open pages poll on.
Restart ==
    /\ restarts < MaxRestarts
    /\ loaded' = EmptyMap /\ watched' = EmptyMap
    /\ request' = [p \in Pages |-> Idle]
    /\ page' = [p \in Pages |-> [page[p] EXCEPT !.pulled = FALSE]]
    /\ restarts' = restarts + 1
    /\ UNCHANGED <<yaml, source, missed, edits>>

Next ==
    \/ \E p \in Pages : Ask(p) \/ Serve(p) \/ Answer(p) \/ Lost(p)
    \/ \E m \in Modules, ok \in BOOLEAN : EditModule(m, ok)
    \/ \E K \in Yamls : EditYaml(K)
    \/ Restart

\* A page polls for as long as it is open, the thread of its request runs to
\* its end, and not every answer is lost.
Fairness == \A p \in Pages : /\ WF_vars(Ask(p) \/ Serve(p))
                             /\ SF_vars(Answer(p))

Spec == Init /\ [][Next]_vars /\ Fairness

-----------------------------------------------------------------------------
Settled(p) == At(p, "none") /\ page[p].pulled /\ page[p].token = State

\* What k's class comes from, and all that importing it may execute.
Touched(k) == {ImportedFrom[k], DefinedIn[k]}
Reached(k) == UNION {{m} \cup Children(m) : m \in {ImportedFrom[k], Package[ImportedFrom[k]]}}

\* A page that has pulled and has nothing more to pull shows the YAML as it is
\* and every class as its source has it, unless the source is broken or among
\* those excused; and an error only for the like reasons.
CurrentBut(excused) ==
    \A p \in Pages : Settled(p) =>
        LET shown == page[p].shown
            suspect(M) == \E m \in M : ~source[m].ok \/ m \in excused
        IN  IF shown = ErrorPage THEN yaml.kernels = {} \/ \E k \in yaml.kernels : suspect(Reached(k))
            ELSE /\ shown.yaml = yaml.ver
                 /\ \A k \in yaml.kernels : \/ suspect(Touched(k))
                                            \/ shown.class[k] = source[DefinedIn[k]].ver

\* server.py 43-44, "there is nothing here that can be stale", as far as it is
\* so.  Excused is a source whose last edit went unseen: it came while a request
\* was at work, or while its module was not watched on the YAML's behalf, or
\* when its package could not be imported; or that a request has since found
\* under way in another one's reload.
SettledIsCurrent == CurrentBut(unseen \cup skipped)

\* server.py 81, "re-import kernel modules whose source changed, so signatures
\* stay honest": a request that finds a changed module under reload need not
\* be excused.
EveryReloadCounts == CurrentBut(unseen)

\* server.py 91, "deepest first, so the parent picks up the new child": once
\* no request is at work and none has anything to reload, a package holds the
\* classes its modules hold.
ParentPicksUpTheChild ==
    (\A p \in Pages : At(p, "none")) /\ Targets = {} =>
        \A m \in DOMAIN loaded : \A c \in Children(m) :
            (\A x \in {m, c} : source[x].ok /\ x \notin unseen) => loaded[m][c] = loaded[c][c]

\* The token depends on what is watched, and every pull, of every page,
\* rewrites that: once the edits end, the pages come to rest all the same.
PagesSettle == <>[](\A p \in Pages : page[p].opened /\ page[p].token = State)

\* vis.md 60-61 and server.py 111-112, "the next poll that loads cleanly replaces
\* the message with the graph again": a page that has settled on an error
\* shows what is wrong now.
ErrorIsCurrent ==
    \A p \in Pages : Settled(p) /\ page[p].shown = ErrorPage =>
        yaml.kernels = {} \/ \E k \in yaml.kernels : \E m \in Reached(k) : ~source[m].ok
=============================================================================
