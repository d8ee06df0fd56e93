------------------------- MODULE PipelineViewProofs -------------------------
(***************************************************************************)
(* A settled page shows what is there, for any kernels and packages, any   *)
(* number of pages, edits and restarts, and every interleaving of their    *)
(* requests.                                                               *)
(*                                                                         *)
(* Two things carry it.  Current: a class whose source nobody missed is    *)
(* the one its source defines now, or every request that is past its look  *)
(* is about to bind it again, so that who stamps, imports or describes     *)
(* finds nothing pending.  And Good, of a token and what is shown with it: *)
(* as long as the token speaks about the files as they are, what is shown  *)
(* is right, or a module has come to be watched that the token does not    *)
(* know of, and then the page's next poll pulls again.                     *)
(***************************************************************************)
EXTENDS PipelineView, TLAPS

Missed == unseen \cup skipped

\* Neither broken nor missed: the class that m holds of d's can be relied on.
Clean(m, d) == \A x \in {m, d} : source[x].ok /\ x \notin Missed

UpToDate(m, d) == loaded[m][d] = source[d].ver

\* Request r has not compared yet, is over, or will bind d's class in m.
Waits(r, m, d) ==
    \/ r.at \in {"none", "look", "answer"}
    \/ r.at = "reload" /\ m \in r.todo
    \/ r.at = "execute" /\ (m \in r.todo \/ (m = r.module /\ d \in r.unbound))

\* m's class of d's will be bound again before anybody stamps, imports or describes.
Pending(m, d) == m \in Targets /\ \A q \in Pages : Waits(request[q], m, d)

Current ==
    \A m \in DOMAIN loaded : \A d \in Classes(m) : Clean(m, d) => UpToDate(m, d) \/ Pending(m, d)

\* Token T of a request or of a page speaks about the files as they are.
Fresh(T) == T[1] = yaml.ver /\ \A m \in DOMAIN T[2] : T[2][m] = source[m].ver

\* Module m is watched, token T does not know of it, and who stamps again will
\* write it back.
Beyond(T, m) ==
    /\ m \in DOMAIN watched \ DOMAIN T[2]
    /\ \A q \in Pages : request[q].at = "restamp" => m \in DOMAIN request[q].stamps

\* A module of the YAML's is beyond token T, and stays so, whatever the requests
\* under way write to what is watched.
Outgrown(T) ==
    /\ \E k \in yaml.kernels : \E m \in Touched(k) : Beyond(T, m)
    /\ \A q \in Pages : request[q].at \in {"import", "describe", "watch"} => request[q].yaml = yaml

Suspect(M) == \E m \in M : ~source[m].ok \/ m \in Missed

Right(shown) ==
    IF shown = ErrorPage THEN yaml.kernels = {} \/ \E k \in yaml.kernels : Suspect(Reached(k))
    ELSE /\ shown.yaml = yaml.ver
         /\ \A k \in yaml.kernels : Suspect(Touched(k)) \/ shown.class[k] = source[DefinedIn[k]].ver

Good(T, shown) == Fresh(T) => Outgrown(T) \/ Right(shown)

IsToken(T) ==
    /\ T = <<T[1], T[2]>> /\ T[1] \in Nat /\ T[1] <= yaml.ver
    /\ DOMAIN T[2] \subseteq Modules /\ T[2] = [m \in DOMAIN T[2] |-> T[2][m]]
    /\ \A m \in DOMAIN T[2] : T[2][m] \in Nat /\ T[2][m] <= source[m].ver

Imported(K) == \A k \in K : ImportedFrom[k] \in DOMAIN loaded

\* Versions of modules that are loaded, none from the future.
AreStamps(w) ==
    /\ w \in [DOMAIN w -> Nat] /\ DOMAIN w \subseteq DOMAIN loaded
    /\ \A m \in DOMAIN w : w[m] <= source[m].ver

\* What may be said of request r while it executes a module: that it has the
\* source there is, unless that was edited unseen, and nothing more to do in
\* what the module re-exports.
Executes(r) ==
    /\ r.module \in DOMAIN loaded /\ r.todo \subseteq DOMAIN loaded
    /\ \A c \in r.todo : Package[c] # r.module
    /\ r.module \notin r.todo /\ r.unbound \subseteq Classes(r.module)
    /\ r.src = source[r.module] \/ r.module \in unseen
    /\ r.src.ver \in Nat

Shape(r) ==
    \/ r.at = "none" /\ r = Idle
    \/ r.at = "look" /\ r = [at |-> "look", token |-> r.token]
    \/ r.at = "reload" /\ r = [at |-> "reload", token |-> r.token, todo |-> r.todo]
    \/ r.at = "execute" /\ r = [at |-> "execute", token |-> r.token, todo |-> r.todo,
                                module |-> r.module, src |-> r.src, unbound |-> r.unbound]
    \/ r.at = "stamp" /\ r = [at |-> "stamp", token |-> r.token]
    \/ r.at = "restamp" /\ r = [at |-> "restamp", token |-> r.token, stamps |-> r.stamps]
    \/ r.at = "yaml" /\ r = [at |-> "yaml", token |-> r.token]
    \/ r.at = "import" /\ r = [at |-> "import", token |-> r.token, yaml |-> r.yaml, todo |-> r.todo]
    \/ r.at = "describe" /\ r = [at |-> "describe", token |-> r.token, yaml |-> r.yaml]
    \/ r.at = "watch" /\ r = [at |-> "watch", token |-> r.token, yaml |-> r.yaml, shown |-> r.shown]
    \/ r.at = "answer" /\ r = [at |-> "answer", token |-> r.token, shown |-> r.shown]

\* What may be said of request r, by its stage.
Asked(r) ==
    /\ Shape(r)
    /\ r.at # "none" => IsToken(r.token)
    /\ r.at = "reload" => r.todo \subseteq DOMAIN loaded
    /\ r.at = "execute" => Executes(r)
    /\ r.at = "restamp" => AreStamps(r.stamps)
    /\ r.at \in {"import", "describe", "watch"} =>
          r.yaml.kernels \subseteq Kernels /\ r.yaml.ver \in Nat /\ (Fresh(r.token) => r.yaml = yaml)
    /\ r.at = "import" => r.todo \subseteq r.yaml.kernels /\ Imported(r.yaml.kernels \ r.todo)
    /\ r.at = "describe" => Imported(r.yaml.kernels)
    /\ r.at \in {"watch", "answer"} => Good(r.token, r.shown)

\* What a page that has pulled shows is good, or its next poll pulls again.
Shown(g) == g.pulled => IsToken(g.token) /\ Good(g.token, g.shown)

SourceType == source \in [Modules -> [ver : Nat, ok : BOOLEAN]]

\* A package is loaded with all it re-exports.
Sane(mods) ==
    /\ mods = [m \in DOMAIN mods |-> mods[m]] /\ DOMAIN mods \subseteq Modules
    /\ \A m \in DOMAIN mods : mods[m] \in [Classes(m) -> Nat] /\ Children(m) \subseteq DOMAIN mods

ModulesType == SourceType /\ Sane(loaded) /\ AreStamps(watched)

FilesType ==
    /\ yaml.ver \in Nat /\ yaml.kernels \subseteq Kernels /\ yaml = [ver |-> yaml.ver, kernels |-> yaml.kernels]
    /\ ModulesType
    /\ request \in [Pages -> {request[p] : p \in Pages}]
    /\ page \in [Pages -> {page[p] : p \in Pages}]
    /\ \A p \in Pages : page[p] = [shown |-> page[p].shown, token |-> page[p].token,
                                   opened |-> page[p].opened, pulled |-> page[p].pulled]

ViewInv ==
    /\ FilesType /\ Current
    /\ \A p \in Pages : \A r \in {request[p]} : Asked(r)
    /\ \A p \in Pages : \A g \in {page[p]} : Shown(g)

-----------------------------------------------------------------------------
(* Modules *)

\* What a package re-exports is in it, and re-exports nothing.
LEMMA Names ==
    /\ \A m \in Modules : Package[m] \in Modules /\ Package[Package[m]] = Package[m]
    /\ \A m, c : c \in Children(m) => /\ m \in Modules /\ c \in Modules /\ c # m
                                      /\ Package[c] = m /\ Package[m] = m
                                      /\ Children(c) = {} /\ Classes(c) = {c}
    /\ \A m : Children(m) = Classes(m) \ {m}
    /\ \A m : Classes(m) \subseteq Modules
    /\ \A k \in Kernels : /\ ImportedFrom[k] \in Modules /\ DefinedIn[k] \in Modules
                          /\ DefinedIn[k] \in Classes(ImportedFrom[k])
                          /\ Touched(k) \subseteq Modules /\ Touched(k) \subseteq Reached(k)
<1>1. \A m \in Modules : Package[m] \in Modules /\ Package[Package[m]] = Package[m]
  BY ViewAssumption
<1>2. ASSUME NEW m, NEW c \in Children(m)
      PROVE  m \in Modules /\ c \in Modules /\ c # m /\ Package[c] = m /\ Package[m] = m /\ c \in Classes(c)
  <2>1. PICK k \in Kernels : c = DefinedIn[k] /\ m \in {ImportedFrom[k], DefinedIn[k]} /\ c # m
    BY DEF Children, Classes
  <2>2. c \in Modules /\ m = Package[c]
    BY <2>1, ViewAssumption
  <2>3. c \in Classes(c)
    BY <2>1 DEF Classes
  <2> QED BY <1>1, <2>1, <2>2, <2>3
<1>3. ASSUME NEW m, NEW c \in Children(m) PROVE Children(c) = {} /\ Classes(c) = {c}
  <2>1. Children(c) = {}
    BY <1>2
  <2> QED BY <1>2, <2>1 DEF Children
<1>4. ASSUME NEW k \in Kernels
      PROVE  /\ ImportedFrom[k] \in Modules /\ DefinedIn[k] \in Modules
             /\ DefinedIn[k] \in Classes(ImportedFrom[k])
             /\ Touched(k) \subseteq Modules /\ Touched(k) \subseteq Reached(k)
  <2>1. ImportedFrom[k] \in Modules /\ DefinedIn[k] \in Modules
    BY <1>1, ViewAssumption
  <2>2. DefinedIn[k] \in Classes(ImportedFrom[k])
    BY DEF Classes
  <2> QED BY <2>1, <2>2 DEF Touched, Reached, Children
<1>5. \A m : Classes(m) \subseteq Modules
  BY ViewAssumption DEF Classes
<1> QED BY <1>1, <1>2, <1>3, <1>4, <1>5 DEF Children

\* Executing modules that have their children there.
CanRun(mods, M) ==
    Sane(mods) /\ M \subseteq Modules /\ \A m \in M : Children(m) \subseteq DOMAIN mods

Ran(mods, M, new) ==
    /\ Sane(new) /\ DOMAIN new = DOMAIN mods \cup M
    /\ \A x \in DOMAIN mods \ M : new[x] = mods[x]
    /\ \A x \in M : new[x] = Body(mods, x)
    /\ \A x \in M : \A d \in Classes(x) : new[x][d] = IF d = x THEN source[d].ver ELSE mods[d][d]

LEMMA ExecutesSanely ==
    ASSUME SourceType, NEW mods, NEW M, CanRun(mods, M)
    PROVE  Ran(mods, M, Executed(mods, M))
<1>0. Sane(mods) /\ M \subseteq Modules /\ \A m \in M : Children(m) \subseteq DOMAIN mods
  BY DEF CanRun
<1> DEFINE new == Executed(mods, M)
<1>1. /\ DOMAIN new = DOMAIN mods \cup M /\ new = [x \in DOMAIN new |-> new[x]]
      /\ \A x \in DOMAIN mods \ M : new[x] = mods[x]
      /\ \A x \in M : new[x] = Body(mods, x)
  BY DEF Executed, Override
<1> HIDE DEF new
<1>2. ASSUME NEW x \in M
      PROVE  /\ Body(mods, x) \in [Classes(x) -> Nat]
             /\ \A d \in Classes(x) : Body(mods, x)[d] = IF d = x THEN source[d].ver ELSE mods[d][d]
  <2>1. ASSUME NEW d \in Classes(x) PROVE (IF d = x THEN source[d].ver ELSE mods[d][d]) \in Nat
    <3>1. CASE d = x
      BY <1>0, <3>1 DEF SourceType
    <3>2. CASE d # x
      <4>1. d \in Children(x) /\ d \in Classes(d)
        BY <3>2, Names
      <4> QED BY <1>0, <3>2, <4>1 DEF Sane
    <3> QED BY <3>1, <3>2
  <2> QED BY <2>1 DEF Body
<1>3. Sane(new)
  <2>1. ASSUME NEW x \in DOMAIN new PROVE new[x] \in [Classes(x) -> Nat] /\ Children(x) \subseteq DOMAIN new
    <3>1. CASE x \in M
      BY <1>0, <1>1, <1>2, <3>1
    <3>2. CASE x \notin M
      BY <1>0, <1>1, <2>1, <3>2 DEF Sane
    <3> QED BY <3>1, <3>2
  <2> QED BY <1>0, <1>1, <2>1 DEF Sane
<1>4. \A x \in M : \A d \in Classes(x) : new[x][d] = IF d = x THEN source[d].ver ELSE mods[d][d]
  BY <1>1, <1>2
<1>5. Ran(mods, M, new)
  BY <1>1, <1>3, <1>4 DEF Ran
<1> QED BY <1>5 DEF new

\* mods with modules more, of which each holds its own class as the source has
\* it and the classes its children hold.
Grown(mods, new) ==
    /\ Sane(new) /\ DOMAIN mods \subseteq DOMAIN new
    /\ \A x \in DOMAIN mods : new[x] = mods[x]
    /\ \A x \in DOMAIN new \ DOMAIN mods : \A d \in Classes(x) :
          new[x][d] = IF d = x THEN source[d].ver ELSE new[d][d]

LEMMA GrownTwice ==
    ASSUME NEW a, NEW b, NEW c, Sane(a), Grown(a, b), Grown(b, c) PROVE Grown(a, c)
<1>1. \A x \in DOMAIN a : c[x] = a[x]
  BY DEF Grown
<1>2. ASSUME NEW x \in DOMAIN c \ DOMAIN a, NEW d \in Classes(x)
      PROVE  c[x][d] = IF d = x THEN source[d].ver ELSE c[d][d]
  <2>1. CASE x \in DOMAIN b
    <3>1. d = x \/ d \in DOMAIN b
      BY <2>1, Names DEF Grown, Sane
    <3> QED BY <1>2, <2>1, <3>1 DEF Grown
  <2>2. CASE x \notin DOMAIN b
    BY <1>2, <2>2 DEF Grown
  <2> QED BY <2>1, <2>2
<1> QED BY <1>1, <1>2 DEF Grown

LEMMA FirstImportGrows ==
    ASSUME SourceType, NEW mods, Sane(mods), NEW m \in Modules \ DOMAIN mods,
           NEW new \in FirstImports(mods, m)
    PROVE  Grown(mods, new) /\ (m \notin DOMAIN new => \E x \in {m} \cup Children(m) : ~source[x].ok)
<1> DEFINE missing == Children(m) \ DOMAIN mods
           sound   == {c \in missing : source[c].ok}
<1>1. ASSUME NEW C \in SUBSET missing PROVE Grown(mods, Executed(mods, C))
  <2>1. C \subseteq Modules /\ \A c \in C : Classes(c) = {c} /\ Children(c) = {}
    BY Names
  <2> HIDE DEF missing
  <2>2. \A x \in DOMAIN mods : x \notin C
    BY DEF missing
  <2> DEFINE new1 == Executed(mods, C)
  <2>3. CanRun(mods, C)
    BY <2>1 DEF CanRun
  <2>a. Ran(mods, C, new1)
    BY <2>3, ExecutesSanely
  <2> HIDE DEF new1
  <2>4. Grown(mods, new1)
    BY <2>1, <2>2, <2>a DEF Grown, Ran
  <2> QED BY <2>4 DEF new1
<1>2. CASE source[m].ok /\ missing = sound
  <2> DEFINE n == Executed(mods, missing)
             full == Executed(n, {m})
  <2>1. new = full
    BY <1>2 DEF FirstImports
  <2>2. Grown(mods, n)
    BY <1>1
  <2>3. DOMAIN n = DOMAIN mods \cup missing
    <3>1. CanRun(mods, missing)
      BY Names DEF CanRun
    <3> QED BY <3>1, ExecutesSanely DEF Ran
  <2>4. m \notin DOMAIN n /\ Children(m) \subseteq DOMAIN n
    BY <2>3, Names
  <2> HIDE DEF n, missing, sound
  <2>a. CanRun(n, {m})
    BY <2>2, <2>4 DEF Grown, CanRun
  <2>5. Ran(n, {m}, full)
    BY <2>a, ExecutesSanely
  <2> HIDE DEF full
  <2>6. \A d \in Classes(m) : d = m \/ (d # m /\ d \in DOMAIN n)
    BY <2>4, Names
  <2>7. Grown(n, full)
    BY <2>4, <2>5, <2>6 DEF Grown, Ran
  <2>8. Grown(mods, full)
    BY <2>2, <2>7, GrownTwice
  <2> QED BY <2>1, <2>5, <2>8 DEF Ran
<1>3. CASE ~(source[m].ok /\ missing = sound)
  <2>1. PICK C \in SUBSET sound : new = Executed(mods, C)
    BY <1>3 DEF FirstImports
  <2>2. Grown(mods, new)
    BY <1>1, <2>1
  <2>3. \E x \in {m} \cup Children(m) : ~source[x].ok
    BY <1>3
  <2> QED BY <2>2, <2>3
<1> QED BY <1>2, <1>3

\* The modules an import adds, and why it may fail.
LEMMA Imports ==
    ASSUME FilesType, NEW m \in Modules, NEW new \in ImportsOf(loaded, m)
    PROVE  /\ Grown(loaded, new)
           /\ m \notin DOMAIN loaded /\ ~({m, Package[m]} \subseteq DOMAIN new) =>
                 \E w \in {m, Package[m]} : \E x \in {w} \cup Children(w) : ~source[x].ok
<1>0. SourceType /\ Sane(loaded) /\ Package[m] \in Modules
  BY Names DEF FilesType, ModulesType, SourceType, Sane
<1>1. CASE m \in DOMAIN loaded
  BY <1>0, <1>1 DEF ImportsOf, Grown
<1>2. CASE m \notin DOMAIN loaded /\ Package[m] \in DOMAIN loaded \cup {m}
  <2>1. new \in FirstImports(loaded, m)
    BY <1>2 DEF ImportsOf
  <2>2. Grown(loaded, new) /\ (m \notin DOMAIN new => \E x \in {m} \cup Children(m) : ~source[x].ok)
    BY <1>0, <1>2, <2>1, FirstImportGrows
  <2> QED BY <1>2, <2>2 DEF Grown
<1>3. CASE m \notin DOMAIN loaded /\ Package[m] \notin DOMAIN loaded \cup {m}
  <2>1. PICK n \in FirstImports(loaded, Package[m]) :
          new \in IF Package[m] \in DOMAIN n /\ m \notin DOMAIN n THEN FirstImports(n, m) ELSE {n}
    BY <1>3 DEF ImportsOf
  <2>2. Grown(loaded, n) /\ (Package[m] \notin DOMAIN n =>
                                \E x \in {Package[m]} \cup Children(Package[m]) : ~source[x].ok)
    BY <1>0, <1>3, FirstImportGrows
  <2>3. CASE Package[m] \in DOMAIN n /\ m \notin DOMAIN n
    <3>1. Grown(n, new) /\ (m \notin DOMAIN new => \E x \in {m} \cup Children(m) : ~source[x].ok)
      BY <1>0, <2>1, <2>2, <2>3, FirstImportGrows DEF Grown
    <3>2. Grown(loaded, new)
      BY <1>0, <2>2, <3>1, GrownTwice
    <3> QED BY <2>3, <3>1, <3>2 DEF Grown
  <2>4. CASE ~(Package[m] \in DOMAIN n /\ m \notin DOMAIN n)
    BY <2>1, <2>2, <2>4
  <2> QED BY <2>3, <2>4
<1> QED BY <1>1, <1>2, <1>3

-----------------------------------------------------------------------------
(* What a step of the server leaves alone *)

\* Nobody edits, nothing is unloaded, and who was outgrown still is.
Onward ==
    /\ yaml' = yaml /\ source' = source /\ unseen \subseteq unseen' /\ skipped \subseteq skipped'
    /\ DOMAIN loaded \subseteq DOMAIN loaded'
    /\ \A T : Outgrown(T) => Outgrown(T)'

LEMMA FactsStay ==
    ASSUME Onward
    PROVE  /\ \A T : IsToken(T) => IsToken(T)'
           /\ \A T : Fresh(T)' <=> Fresh(T)
           /\ \A T, s : Good(T, s) => Good(T, s)'
           /\ \A K : Imported(K) => Imported(K)'
           /\ \A w : AreStamps(w) => AreStamps(w)'
           /\ \A r : Executes(r) => Executes(r)'
<1>1. \A T : IsToken(T) => IsToken(T)'
  BY DEF Onward, IsToken, Modules
<1>2. \A T : Fresh(T)' <=> Fresh(T)
  BY DEF Onward, Fresh
<1>3. ASSUME NEW s, Right(s) PROVE Right(s)'
  <2>1. \A M : Suspect(M) => Suspect(M)'
    BY DEF Onward, Suspect, Missed
  <2> QED BY <1>3, <2>1 DEF Onward, Right, Reached, Touched, Children, Classes
<1>4. \A T, s : Good(T, s) => Good(T, s)'
  BY <1>2, <1>3 DEF Good, Onward
<1>5. \A K : Imported(K) => Imported(K)'
  BY DEF Onward, Imported
<1>6. \A w : AreStamps(w) => AreStamps(w)'
  BY DEF Onward, AreStamps
<1>7. \A r : Executes(r) => Executes(r)'
  BY DEF Onward, Executes, Classes
<1> QED BY <1>1, <1>2, <1>4, <1>5, <1>6, <1>7

LEMMA AskedStays == ASSUME Onward, NEW r, Asked(r) PROVE Asked(r)'
<1>1. IsToken(r.token) => IsToken(r.token)'
  BY FactsStay
<1>2. Fresh(r.token)' <=> Fresh(r.token)
  BY FactsStay
<1>3. Good(r.token, r.shown) => Good(r.token, r.shown)'
  BY FactsStay
<1>4. /\ Imported(r.yaml.kernels) => Imported(r.yaml.kernels)'
      /\ Imported(r.yaml.kernels \ r.todo) => Imported(r.yaml.kernels \ r.todo)'
      /\ AreStamps(r.stamps) => AreStamps(r.stamps)'
      /\ Executes(r) => Executes(r)'
  BY FactsStay
<1>5. yaml' = yaml /\ DOMAIN loaded \subseteq DOMAIN loaded'
  BY DEF Onward
<1>6. Shape(r) => Shape(r)'
  BY DEF Shape
<1> QED BY <1>1, <1>2, <1>3, <1>4, <1>5, <1>6 DEF Asked

LEMMA ShownStays == ASSUME Onward, NEW g, Shown(g) PROVE Shown(g)'
<1>1. IsToken(g.token) => IsToken(g.token)'
  BY FactsStay
<1>2. Good(g.token, g.shown) => Good(g.token, g.shown)'
  BY FactsStay
<1> QED BY <1>1, <1>2 DEF Shown

\* A step of page p's request that reads no YAML but the current one, and
\* unwatches nothing.
Plain(p) ==
    /\ yaml' = yaml /\ source' = source /\ unseen \subseteq unseen' /\ skipped \subseteq skipped'
    /\ DOMAIN loaded \subseteq DOMAIN loaded' /\ DOMAIN watched \subseteq DOMAIN watched'
    /\ \A q \in Pages : q # p => request'[q] = request[q]
    /\ request'[p].at = "restamp" => DOMAIN watched \subseteq DOMAIN request'[p].stamps
    /\ request'[p].at \in {"import", "describe", "watch"} =>
          \/ request'[p].yaml = yaml
          \/ request[p].at \in {"import", "describe", "watch"} /\ request'[p].yaml = request[p].yaml

LEMMA PlainSteps == ASSUME NEW p \in Pages, Plain(p) PROVE Onward
<1>1. ASSUME NEW T, Outgrown(T) PROVE Outgrown(T)'
  <2>1. \A q \in Pages : request'[q].at \in {"import", "describe", "watch"} => request'[q].yaml = yaml
    BY <1>1 DEF Outgrown, Beyond, Plain
  <2>a. PICK k \in yaml.kernels : \E m \in Touched(k) : Beyond(T, m)
    BY <1>1 DEF Outgrown
  <2>2. PICK m \in Touched(k) : Beyond(T, m)
    BY <2>a
  <2>3. \A q \in Pages : request'[q].at = "restamp" => m \in DOMAIN request'[q].stamps
    BY <2>2 DEF Beyond, Plain
  <2>4. m \in DOMAIN watched' \ DOMAIN T[2]
    BY <2>2 DEF Beyond, Plain
  <2> QED BY <2>1, <2>2, <2>3, <2>4 DEF Outgrown, Beyond, Plain, Touched
<1> QED BY <1>1 DEF Onward, Plain

\* A step of the server keeps the invariant if the request it works on is as
\* it may be.
LEMMA ServerSteps ==
    ASSUME ViewInv, NEW p \in Pages, Onward, FilesType', Current',
           \A q \in Pages : q # p => request'[q] = request[q] /\ page'[q] = page[q],
           \A r \in {request'[p]} : Asked(r)',
           \A g \in {page'[p]} : Shown(g)'
    PROVE  ViewInv'
<1>1. ASSUME NEW q \in Pages, NEW r \in {request'[q]}
      PROVE  Asked(r)'
  <2>1. CASE q = p
    BY <1>1, <2>1
  <2>2. CASE q # p
    <3>1. r = request[q]
      BY <1>1, <2>2
    <3>2. Asked(r)
      BY <3>1 DEF ViewInv
    <3> QED BY <3>2, AskedStays
  <2> QED BY <2>1, <2>2
<1>2. ASSUME NEW q \in Pages, NEW g \in {page'[q]}
      PROVE  Shown(g)'
  <2>1. CASE q = p
    BY <1>2, <2>1
  <2>2. CASE q # p
    <3>1. g = page[q]
      BY <1>2, <2>2
    <3>2. Shown(g)
      BY <3>1 DEF ViewInv
    <3> QED BY <3>2, ShownStays
  <2> QED BY <2>1, <2>2
<1> QED BY <1>1, <1>2 DEF ViewInv

\* A step that loads and stamps nothing, and waits for no less.
LEMMA CurrentStays ==
    ASSUME ViewInv, NEW p \in Pages, source' = source, unseen \subseteq unseen',
           skipped \subseteq skipped', watched' = watched, loaded' = loaded,
           \A q \in Pages : q # p => request'[q] = request[q],
           \A m \in DOMAIN loaded : \A d \in Classes(m) :
              Clean(m, d)' /\ Pending(m, d) => Waits(request'[p], m, d)
    PROVE  Current'
<1>1. Targets' = Targets
  BY DEF Targets, ModuleMtime
<1>2. ASSUME NEW m \in DOMAIN loaded, NEW d \in Classes(m), Clean(m, d)', Pending(m, d)
      PROVE  Pending(m, d)'
  <2>1. ASSUME NEW q \in Pages PROVE Waits(request'[q], m, d)
    BY <1>2 DEF Pending
  <2> QED BY <1>1, <1>2, <2>1 DEF Pending, Waits
<1>3. ASSUME NEW m \in DOMAIN loaded, NEW d \in Classes(m), Clean(m, d)'
      PROVE  UpToDate(m, d)' \/ Pending(m, d)'
  <2>1. Clean(m, d)
    BY <1>3 DEF Clean, Missed
  <2>2. UpToDate(m, d) => UpToDate(m, d)'
    BY DEF UpToDate
  <2> QED BY <1>2, <1>3, <2>1, <2>2 DEF ViewInv, Current
<1> QED BY <1>3 DEF Current, Classes

LEMMA StampsAreSane ==
    ASSUME FilesType, NEW M \in SUBSET DOMAIN loaded
    PROVE  AreStamps(Stamps(M)) /\ DOMAIN Stamps(M) = M
<1>1. \A m \in M : m \in Modules /\ source[m].ver \in Nat
  BY DEF FilesType, ModulesType, SourceType, Sane
<1>2. DOMAIN Stamps(M) = M /\ \A m \in M : Stamps(M)[m] = source[m].ver
  BY DEF Stamps, ModuleMtime
<1>3. Stamps(M) \in [M -> Nat]
  BY <1>1 DEF Stamps, ModuleMtime
<1> QED BY <1>1, <1>2, <1>3 DEF AreStamps

LEMMA StateIsToken ==
    ASSUME FilesType
    PROVE  IsToken(State) /\ Fresh(State)
BY DEF FilesType, ModulesType, SourceType, Sane, AreStamps, IsToken, Fresh, State, Stamps, ModuleMtime

\* A step of page p's request that shows nothing yet.
LEMMA ServedTypes ==
    ASSUME FilesType, NEW p \in Pages, NEW new, request' = [request EXCEPT ![p] = new],
           yaml' = yaml, page' = page, ModulesType'
    PROVE  /\ FilesType' /\ request'[p] = new
           /\ \A q \in Pages : q # p => request'[q] = request[q]
BY DEF FilesType

LEMMA ModulesStay ==
    ASSUME FilesType, source' = source, UNCHANGED view
    PROVE  ModulesType'
BY DEF FilesType, ModulesType, SourceType, Sane, AreStamps, Children, Classes, Modules, view

LEMMA AskKeeps == ASSUME ViewInv, NEW p \in Pages, Ask(p) PROVE ViewInv'
<1> USE DEF Ask, At, Goes, disk, view, missed
<1> DEFINE new == [at |-> "look", token |-> State]
<1>0. FilesType
  BY DEF ViewInv
<1>1. request' = [request EXCEPT ![p] = new] /\ page' = page /\ ModulesType'
  BY <1>0, ModulesStay
<1>2. FilesType' /\ request'[p] = new /\ \A q \in Pages : q # p => request'[q] = request[q]
  BY <1>0, <1>1, ServedTypes
<1>3. Onward
  BY <1>2, PlainSteps DEF Plain
<1>4. Current'
  BY <1>2, CurrentStays DEF Waits
<1>5. \A r \in {request'[p]} : Asked(r)'
  <2> SUFFICES ASSUME NEW r, r = new PROVE Asked(r)'
    BY <1>2
  <2>1. IsToken(r.token)'
    BY <1>0, <1>3, StateIsToken, FactsStay
  <2> QED BY <2>1 DEF Asked, Shape
<1>6. \A g \in {page'[p]} : Shown(g)'
  BY <1>1, <1>3, ShownStays DEF ViewInv
<1> QED BY <1>1, <1>2, <1>3, <1>4, <1>5, <1>6, ServerSteps

LEMMA LookKeeps == ASSUME ViewInv, NEW p \in Pages, Look(p) PROVE ViewInv'
<1> USE DEF Look, At, Goes, disk, view, missed
<1>0. FilesType /\ Asked(request[p]) /\ request[p].at = "look"
  BY DEF ViewInv
<1> DEFINE new == IF Targets = {} THEN [at |-> "yaml", token |-> request[p].token]
                  ELSE [at |-> "reload", token |-> request[p].token, todo |-> Targets]
<1>1. request' = [request EXCEPT ![p] = new] /\ page' = page /\ ModulesType'
  BY <1>0, ModulesStay
<1>2. FilesType' /\ request'[p] = new /\ \A q \in Pages : q # p => request'[q] = request[q]
  BY <1>0, <1>1, ServedTypes
<1>3. Onward
  <2>1. new.at \in {"yaml", "reload"}
    OBVIOUS
  <2> QED BY <1>2, <2>1, PlainSteps DEF Plain
<1>4. Current'
  <2>1. \A m, d : Pending(m, d) => Waits(request'[p], m, d)
    BY <1>2 DEF Pending, Waits
  <2> QED BY <1>2, <2>1, CurrentStays
<1>5. \A r \in {request'[p]} : Asked(r)'
  <2> SUFFICES ASSUME NEW r, r = new PROVE Asked(r)'
    BY <1>2
  <2>1. IsToken(r.token)'
    <3>1. IsToken(r.token)
      BY <1>0 DEF Asked
    <3> QED BY <1>3, <3>1, FactsStay
  <2>2. Targets \subseteq DOMAIN loaded'
    BY <1>0 DEF Targets, FilesType, ModulesType, AreStamps
  <2> QED BY <2>1, <2>2 DEF Asked, Shape
<1>6. \A g \in {page'[p]} : Shown(g)'
  BY <1>1, <1>3, ShownStays DEF ViewInv
<1> QED BY <1>1, <1>2, <1>3, <1>4, <1>5, <1>6, ServerSteps

\* A request is done with a module: what it leaves unbound of it is missed, or
\* its source is broken.
LEMMA OnToTheNext ==
    ASSUME ViewInv, NEW p \in Pages, request[p].at \in {"reload", "execute"},
           NEW todo \in SUBSET DOMAIN loaded, GoesOn(p, todo),
           UNCHANGED <<yaml, source, view, page>>, unseen \subseteq unseen', skipped \subseteq skipped',
           \A m \in DOMAIN loaded : \A d \in Classes(m) :
              Clean(m, d)' /\ Waits(request[p], m, d) => m \in todo
    PROVE  ViewInv'
<1> USE DEF GoesOn, Goes, view
<1>0. FilesType /\ Asked(request[p])
  BY DEF ViewInv
<1> DEFINE new == IF todo = {} THEN [at |-> "stamp", token |-> request[p].token]
                  ELSE [at |-> "reload", token |-> request[p].token, todo |-> todo]
<1>1. request' = [request EXCEPT ![p] = new] /\ page' = page /\ ModulesType'
  BY <1>0, ModulesStay
<1>2. FilesType' /\ request'[p] = new /\ \A q \in Pages : q # p => request'[q] = request[q]
  BY <1>0, <1>1, ServedTypes
<1>3. Onward
  <2>1. new.at \in {"stamp", "reload"}
    OBVIOUS
  <2> HIDE DEF new
  <2> QED BY <1>2, <2>1, PlainSteps DEF Plain
<1>4. Current'
  <2>1. ASSUME NEW m \in DOMAIN loaded, NEW d \in Classes(m), Clean(m, d)', Pending(m, d)
        PROVE  Waits(request'[p], m, d)
    <3>1. m \in todo
      BY <2>1 DEF Pending
    <3> QED BY <1>2, <3>1 DEF Waits
  <2> QED BY <1>2, <2>1, CurrentStays
<1>5. \A r \in {request'[p]} : Asked(r)'
  <2> SUFFICES ASSUME NEW r, r = new PROVE Asked(r)'
    BY <1>2
  <2>1. IsToken(r.token)'
    <3>1. IsToken(r.token)
      BY <1>0 DEF Asked
    <3> QED BY <1>3, <3>1, FactsStay
  <2> QED BY <2>1 DEF Asked, Shape
<1>6. \A g \in {page'[p]} : Shown(g)'
  BY <1>1, <1>3, ShownStays DEF ViewInv
<1> QED BY <1>1, <1>2, <1>3, <1>4, <1>5, <1>6, ServerSteps

\* A module that is found under reload is remembered as skipped.
LEMMA SkipKeeps == ASSUME ViewInv, NEW p \in Pages, SkipReload(p) PROVE ViewInv'
<1> USE DEF SkipReload, At, view
<1>0. request[p].at = "reload" /\ request[p].todo \subseteq DOMAIN loaded
  BY DEF ViewInv, Asked
<1>1. PICK m \in request[p].todo : skipped' = skipped \cup {m} /\ GoesOn(p, request[p].todo \ {m})
  OBVIOUS
<1>2. ASSUME NEW x \in DOMAIN loaded, NEW d \in Classes(x), Clean(x, d)', Waits(request[p], x, d)
      PROVE  x \in request[p].todo \ {m}
  <2>1. x # m
    BY <1>1, <1>2 DEF Clean, Missed
  <2> QED BY <1>0, <1>2, <2>1 DEF Waits
<1> QED BY <1>0, <1>1, <1>2, OnToTheNext

\* One whose package is not there is remembered as unseen.
LEMMA RaisesKeeps == ASSUME ViewInv, NEW p \in Pages, ReloadRaises(p) PROVE ViewInv'
<1> USE DEF ReloadRaises, At, view
<1>0. request[p].at = "reload" /\ request[p].todo \subseteq DOMAIN loaded
  BY DEF ViewInv, Asked
<1>1. PICK m \in request[p].todo : unseen' = unseen \cup {m} /\ GoesOn(p, request[p].todo \ {m})
  OBVIOUS
<1>2. ASSUME NEW x \in DOMAIN loaded, NEW d \in Classes(x), Clean(x, d)', Waits(request[p], x, d)
      PROVE  x \in request[p].todo \ {m}
  <2>1. x # m
    BY <1>1, <1>2 DEF Clean, Missed
  <2> QED BY <1>0, <1>2, <2>1 DEF Waits
<1> QED BY <1>0, <1>1, <1>2, OnToTheNext

\* What a body leaves unbound, it leaves because its source is broken.
LEMMA ReloadedKeeps == ASSUME ViewInv, NEW p \in Pages, Reloaded(p) PROVE ViewInv'
<1> USE DEF Reloaded, At, disk, view, missed
<1>0. request[p].at = "execute" /\ Executes(request[p])
  BY DEF ViewInv, Asked
<1>1. ASSUME NEW x \in DOMAIN loaded, NEW d \in Classes(x), Clean(x, d)', Waits(request[p], x, d)
      PROVE  x \in request[p].todo
  <2>1. x = request[p].module => source[x].ok /\ x \notin unseen
    BY <1>1 DEF Clean, Missed
  <2>2. x = request[p].module => request[p].unbound = {}
    BY <1>0, <2>1 DEF Executes
  <2> QED BY <1>0, <1>1, <2>2 DEF Waits
<1> QED BY <1>0, <1>1, OnToTheNext DEF Executes

\* Deepest first: nothing is left to do in what the module re-exports.
LEMMA ReloadKeeps == ASSUME ViewInv, NEW p \in Pages, Reload(p) PROVE ViewInv'
<1> USE DEF Reload, At, Goes, disk, view, missed
<1>0. FilesType /\ Asked(request[p]) /\ request[p].at = "reload" /\ request[p].todo \subseteq DOMAIN loaded
  BY DEF ViewInv, Asked
<1>1. PICK m \in request[p].todo :
        /\ Deepest(m, request[p].todo)
        /\ request' = [request EXCEPT ![p] =
              [at |-> "execute", token |-> request[p].token, todo |-> request[p].todo \ {m},
               module |-> m, src |-> source[m], unbound |-> Classes(m)]]
  OBVIOUS
<1> DEFINE new == [at |-> "execute", token |-> request[p].token, todo |-> request[p].todo \ {m},
                   module |-> m, src |-> source[m], unbound |-> Classes(m)]
<1>2. request' = [request EXCEPT ![p] = new] /\ page' = page /\ ModulesType'
  BY <1>0, <1>1, ModulesStay
<1>3. FilesType' /\ request'[p] = new /\ \A q \in Pages : q # p => request'[q] = request[q]
  BY <1>0, <1>2, ServedTypes
<1>4. Onward
  BY <1>3, PlainSteps DEF Plain
<1>5. Current'
  <2>1. ASSUME NEW x \in DOMAIN loaded, NEW d \in Classes(x), Pending(x, d)
        PROVE  Waits(request'[p], x, d)
    <3>1. x \in request[p].todo
      BY <1>0, <2>1 DEF Pending, Waits
    <3> QED BY <1>3, <2>1, <3>1 DEF Waits
  <2> QED BY <1>3, <2>1, CurrentStays
<1>6. \A r \in {request'[p]} : Asked(r)'
  <2> SUFFICES ASSUME NEW r, r = new PROVE Asked(r)'
    BY <1>3
  <2>1. IsToken(r.token)'
    <3>1. IsToken(r.token)
      BY <1>0 DEF Asked
    <3> QED BY <1>4, <3>1, FactsStay
  <2>2. Executes(r)'
    <3>1. m \in Modules /\ source[m].ver \in Nat
      BY <1>0 DEF FilesType, ModulesType, SourceType, Sane
    <3>2. \A c \in request[p].todo \ {m} : Package[c] # m
      BY <1>1 DEF Deepest
    <3>3. Executes(r)
      BY <1>0, <3>1, <3>2 DEF Executes
    <3> QED BY <1>4, <3>3, FactsStay
  <2> QED BY <2>1, <2>2 DEF Asked, Shape
<1>7. \A g \in {page'[p]} : Shown(g)'
  BY <1>2, <1>4, ShownStays DEF ViewInv
<1> QED BY <1>2, <1>3, <1>4, <1>5, <1>6, <1>7, ServerSteps

\* What a package takes from its module is current, or somebody who has it still
\* to bind says otherwise, and that is not this request.
LEMMA BindKeeps == ASSUME ViewInv, NEW p \in Pages, Bind(p) PROVE ViewInv'
<1> USE DEF Bind, At, disk, view, missed
<1>0. FilesType /\ Asked(request[p]) /\ request[p].at = "execute" /\ Executes(request[p])
  BY DEF ViewInv, Asked
<1>1. PICK d \in request[p].unbound :
        /\ loaded' = [loaded EXCEPT ![request[p].module][d] =
              IF d = request[p].module THEN request[p].src.ver ELSE loaded[d][d]]
        /\ request' = [request EXCEPT ![p].unbound = @ \ {d}]
  OBVIOUS
<1> DEFINE m == request[p].module
           new == [at |-> "execute", token |-> request[p].token, todo |-> request[p].todo,
                   module |-> m, src |-> request[p].src, unbound |-> request[p].unbound \ {d}]
<1>2. request' = [request EXCEPT ![p] = new] /\ page' = page /\ source' = source /\ watched' = watched
      /\ unseen' = unseen /\ skipped' = skipped /\ yaml' = yaml
  <2>1. PICK t, td, mo, sr, ub : request[p] = [at |-> "execute", token |-> t, todo |-> td, module |-> mo,
                                               src |-> sr, unbound |-> ub]
    BY <1>0 DEF Asked, Shape
  <2>2. [request[p] EXCEPT !.unbound = @ \ {d}] = new
    <3>1. \A u : [[at |-> "execute", token |-> t, todo |-> td, module |-> mo, src |-> sr, unbound |-> ub]
                     EXCEPT !.unbound = u]
                 = [at |-> "execute", token |-> t, todo |-> td, module |-> mo, src |-> sr, unbound |-> u]
      OBVIOUS
    <3> QED BY <2>1, <3>1
  <2>3. request' = [request EXCEPT ![p] = [request[p] EXCEPT !.unbound = @ \ {d}]]
    BY <1>0, <1>1 DEF FilesType
  <2> QED BY <2>2, <2>3
<1>3. m \in DOMAIN loaded /\ m \in Modules /\ d \in Classes(m) /\ loaded[m] \in [Classes(m) -> Nat]
      /\ Children(m) \subseteq DOMAIN loaded
  BY <1>0 DEF Executes, FilesType, ModulesType, Sane
<1> DEFINE v == IF d = m THEN request[p].src.ver ELSE loaded[d][d]
<1>4. d # m => d \in DOMAIN loaded /\ Package[d] = m /\ d \in Classes(d) /\ d # m
  BY <1>3, Names
<1>5. v \in Nat
  <2>1. CASE d = m
    BY <1>0, <2>1 DEF Executes
  <2>2. CASE d # m
    <3>1. loaded[d] \in [Classes(d) -> Nat]
      BY <1>0, <1>4, <2>2 DEF FilesType, ModulesType, Sane
    <3> QED BY <1>4, <2>2, <3>1
  <2> QED BY <2>1, <2>2
<1>6. loaded' = [loaded EXCEPT ![m][d] = v]
  BY <1>1
<1> HIDE DEF v
<1>7. /\ DOMAIN loaded' = DOMAIN loaded /\ loaded' = [x \in DOMAIN loaded |-> loaded'[x]]
      /\ loaded'[m] \in [Classes(m) -> Nat] /\ loaded'[m][d] = v
      /\ \A x \in DOMAIN loaded : x # m => loaded'[x] = loaded[x]
      /\ \A e \in Classes(m) : e # d => loaded'[m][e] = loaded[m][e]
  <2> DEFINE held == [loaded[m] EXCEPT ![d] = v]
  <2> HIDE DEF m
  <2>1. loaded' = [loaded EXCEPT ![m] = held]
    BY <1>6
  <2>2. /\ held \in [Classes(m) -> Nat] /\ held[d] = v
        /\ \A e \in Classes(m) : e # d => held[e] = loaded[m][e]
    BY <1>3, <1>5
  <2>3. loaded = [x \in DOMAIN loaded |-> loaded[x]]
    BY <1>0 DEF FilesType, ModulesType, Sane
  <2> HIDE DEF held
  <2>4. loaded' = [x \in DOMAIN loaded |-> IF x = m THEN held ELSE loaded[x]]
    BY <2>1
  <2>5. loaded'[m] = held /\ \A x \in DOMAIN loaded : x # m => loaded'[x] = loaded[x]
    BY <1>3, <2>4
  <2>6. DOMAIN loaded' = DOMAIN loaded /\ loaded' = [x \in DOMAIN loaded |-> loaded'[x]]
    BY <2>4
  <2> QED BY <2>2, <2>5, <2>6
<1>8. ModulesType'
  <2>1. Sane(loaded')
    BY <1>0, <1>7 DEF FilesType, ModulesType, Sane
  <2> QED BY <1>0, <1>2, <1>7, <2>1 DEF FilesType, ModulesType, SourceType, Sane, AreStamps, Children, Classes, Modules
<1>9. FilesType' /\ request'[p] = new /\ \A q \in Pages : q # p => request'[q] = request[q]
  <2> HIDE DEF new
  <2> QED BY <1>0, <1>2, <1>8, ServedTypes
<1>10. Onward
  <2>1. new.at = "execute"
    OBVIOUS
  <2> HIDE DEF new
  <2> QED BY <1>2, <1>7, <1>9, <2>1, PlainSteps DEF Plain
<1>11. Current'
  <2>1. Targets' = Targets
    BY <1>2 DEF Targets, ModuleMtime
  <2>2. ASSUME NEW x \in DOMAIN loaded, NEW e \in Classes(x), <<x, e>> # <<m, d>>, Pending(x, e)
        PROVE  Pending(x, e)'
    <3>1. x \in request[p].todo \/ (x = m /\ e \in request[p].unbound \ {d})
      BY <1>0, <2>2 DEF Pending, Waits
    <3>2. Waits(request'[p], x, e)
      BY <1>9, <3>1 DEF Waits
    <3> HIDE DEF new
    <3>3. \A q \in Pages : Waits(request'[q], x, e)
      BY <1>9, <2>2, <3>2 DEF Pending
    <3> QED BY <2>1, <2>2, <3>3 DEF Pending, Waits
  <2>3. \A x, e : Clean(x, e)' <=> Clean(x, e)
    BY <1>2 DEF Clean, Missed
  <2>4. ASSUME NEW x \in DOMAIN loaded, NEW e \in Classes(x), <<x, e>> # <<m, d>>, Clean(x, e)
        PROVE  UpToDate(x, e)' \/ Pending(x, e)'
    <3>1. loaded'[x][e] = loaded[x][e]
      BY <1>7, <2>4
    <3>2. UpToDate(x, e) => UpToDate(x, e)'
      BY <1>2, <3>1 DEF UpToDate
    <3> QED BY <2>2, <2>4, <3>2 DEF ViewInv, Current
  <2>5. ASSUME Clean(m, d) PROVE UpToDate(m, d)'
    <3>1. CASE d = m
      <4>1. request[p].src = source[m]
        BY <1>0, <2>5 DEF Executes, Clean, Missed
      <4> QED BY <1>2, <1>7, <3>1, <4>1 DEF UpToDate, v
    <3>2. CASE d # m
      <4>1. Clean(d, d)
        BY <2>5 DEF Clean
      <4>2. ~Pending(d, d)
        BY <1>0, <1>4, <3>2 DEF Pending, Waits, Executes
      <4>3. loaded[d][d] = source[d].ver
        BY <1>4, <3>2, <4>1, <4>2 DEF ViewInv, Current, UpToDate
      <4> QED BY <1>2, <1>7, <3>2, <4>3 DEF UpToDate, v
    <3> QED BY <3>1, <3>2
  <2>6. ASSUME NEW x \in DOMAIN loaded, NEW e \in Classes(x), Clean(x, e)'
        PROVE  UpToDate(x, e)' \/ Pending(x, e)'
    <3>1. CASE <<x, e>> = <<m, d>>
      BY <2>3, <2>5, <2>6, <3>1
    <3>2. CASE <<x, e>> # <<m, d>>
      BY <2>3, <2>4, <2>6, <3>2
    <3> QED BY <3>1, <3>2
  <2> QED BY <1>7, <2>6 DEF Current, Classes
<1>12. \A r \in {request'[p]} : Asked(r)'
  <2> SUFFICES ASSUME NEW r, r = new PROVE Asked(r)'
    BY <1>9
  <2>1. IsToken(r.token)'
    <3>1. IsToken(r.token)
      BY <1>0 DEF Asked
    <3> QED BY <1>10, <3>1, FactsStay
  <2>2. Executes(r)'
    <3>1. Executes(r)
      BY <1>0 DEF Executes
    <3> QED BY <1>10, <3>1, FactsStay
  <2> QED BY <2>1, <2>2 DEF Asked, Shape
<1>13. \A g \in {page'[p]} : Shown(g)'
  BY <1>2, <1>10, ShownStays DEF ViewInv
<1> QED BY <1>2, <1>9, <1>10, <1>11, <1>12, <1>13, ServerSteps

\* Past the reload nothing is pending any more.
LEMMA NonePending ==
    ASSUME ViewInv, NEW p \in Pages,
           request[p].at \in {"stamp", "restamp", "yaml", "import", "describe", "watch"}
    PROVE  \A m \in DOMAIN loaded : \A d \in Classes(m) : Clean(m, d) => UpToDate(m, d)
BY DEF ViewInv, Current, Pending, Waits

LEMMA CleanStays ==
    ASSUME source' = source, UNCHANGED missed
    PROVE  \A m, d : Clean(m, d)' => Clean(m, d) /\ (loaded'[m][d] = source[d].ver => UpToDate(m, d)')
BY DEF Clean, UpToDate, Missed, missed

LEMMA NoneComesToPend ==
    ASSUME ViewInv, NEW p \in Pages,
           request[p].at \in {"stamp", "restamp", "yaml", "import", "describe", "watch"},
           source' = source, UNCHANGED missed, loaded' = loaded
    PROVE  Current'
BY NonePending, CleanStays DEF Current, UpToDate, Classes

LEMMA StampKeeps == ASSUME ViewInv, NEW p \in Pages, Stamp(p) PROVE ViewInv'
<1> USE DEF Stamp, At, Goes, disk, view
<1>0. FilesType /\ Asked(request[p]) /\ request[p].at = "stamp"
  BY DEF ViewInv
<1> DEFINE new == [at |-> "restamp", token |-> request[p].token, stamps |-> Stamps(DOMAIN watched)]
<1>1. request' = [request EXCEPT ![p] = new] /\ page' = page /\ ModulesType'
  BY <1>0, ModulesStay
<1>2. FilesType' /\ request'[p] = new /\ \A q \in Pages : q # p => request'[q] = request[q]
  BY <1>0, <1>1, ServedTypes
<1>3. Onward
  <2>1. DOMAIN new.stamps = DOMAIN watched
    BY DEF Stamps
  <2> QED BY <1>2, <2>1, PlainSteps DEF Plain, missed
<1>4. Current'
  BY <1>0, NoneComesToPend
<1>5. \A r \in {request'[p]} : Asked(r)'
  <2> SUFFICES ASSUME NEW r, r = new PROVE Asked(r)'
    BY <1>2
  <2>1. IsToken(r.token) /\ AreStamps(r.stamps)
    BY <1>0, StampsAreSane DEF Asked, FilesType, ModulesType, AreStamps
  <2>2. IsToken(r.token)' /\ AreStamps(r.stamps)'
    BY <1>3, <2>1, FactsStay
  <2> QED BY <2>2 DEF Asked, Shape
<1>6. \A g \in {page'[p]} : Shown(g)'
  BY <1>1, <1>3, ShownStays DEF ViewInv
<1> QED BY <1>1, <1>2, <1>3, <1>4, <1>5, <1>6, ServerSteps

\* What another request has come to watch meanwhile is lost, but nothing that
\* a token is outgrown by.
LEMMA RestampKeeps == ASSUME ViewInv, NEW p \in Pages, Restamp(p) PROVE ViewInv'
<1> USE DEF Restamp, At, Goes, disk
<1>0. FilesType /\ Asked(request[p]) /\ request[p].at = "restamp" /\ AreStamps(request[p].stamps)
  BY DEF ViewInv, Asked
<1> DEFINE new == [at |-> "yaml", token |-> request[p].token]
<1>1. request' = [request EXCEPT ![p] = new] /\ page' = page /\ watched' = request[p].stamps
  OBVIOUS
<1>2. ModulesType'
  BY <1>0, <1>1 DEF FilesType, ModulesType, SourceType, Sane, AreStamps, Children, Classes, Modules
<1>3. FilesType' /\ request'[p] = new /\ \A q \in Pages : q # p => request'[q] = request[q]
  BY <1>0, <1>1, <1>2, ServedTypes
<1>4. Onward
  <2>1. ASSUME NEW T, Outgrown(T) PROVE Outgrown(T)'
    <3>a. PICK k \in yaml.kernels : \E m \in Touched(k) : Beyond(T, m)
      BY <2>1 DEF Outgrown
    <3>1. PICK m \in Touched(k) : Beyond(T, m)
      BY <3>a
    <3>2. \A q \in Pages : request'[q].at = "restamp" => m \in DOMAIN request'[q].stamps
      BY <1>3, <3>1 DEF Beyond
    <3>3. m \in DOMAIN watched' \ DOMAIN T[2]
      BY <1>0, <1>1, <3>1 DEF Beyond
    <3>4. \A q \in Pages : request'[q].at \in {"import", "describe", "watch"} => request'[q].yaml = yaml
      BY <1>3, <2>1 DEF Outgrown
    <3> QED BY <3>1, <3>2, <3>3, <3>4 DEF Outgrown, Beyond, Touched
  <2> QED BY <2>1 DEF Onward, missed
<1>5. Current'
  BY <1>0, NoneComesToPend
<1>6. \A r \in {request'[p]} : Asked(r)'
  <2> SUFFICES ASSUME NEW r, r = new PROVE Asked(r)'
    BY <1>3
  <2>1. IsToken(r.token)'
    <3>1. IsToken(r.token)
      BY <1>0 DEF Asked
    <3> QED BY <1>4, <3>1, FactsStay
  <2> QED BY <2>1 DEF Asked, Shape
<1>7. \A g \in {page'[p]} : Shown(g)'
  BY <1>1, <1>4, ShownStays DEF ViewInv
<1> QED BY <1>1, <1>3, <1>4, <1>5, <1>6, <1>7, ServerSteps

LEMMA ReadKeeps == ASSUME ViewInv, NEW p \in Pages, ReadYaml(p) PROVE ViewInv'
<1> USE DEF ReadYaml, At, Goes, disk, view
<1>0. FilesType /\ Asked(request[p]) /\ request[p].at = "yaml"
  BY DEF ViewInv
<1> DEFINE new == IF yaml.kernels # {}
                  THEN [at |-> "import", token |-> request[p].token, yaml |-> yaml, todo |-> yaml.kernels]
                  ELSE [at |-> "answer", token |-> request[p].token, shown |-> ErrorPage]
<1>1. request' = [request EXCEPT ![p] = new] /\ page' = page /\ ModulesType'
  BY <1>0, ModulesStay
<1>2. FilesType' /\ request'[p] = new /\ \A q \in Pages : q # p => request'[q] = request[q]
  <2> HIDE DEF new
  <2> QED BY <1>0, <1>1, ServedTypes
<1>3. Onward
  <2>1. new.at \in {"import", "answer"} /\ (new.at = "import" => new.yaml = yaml)
    OBVIOUS
  <2> HIDE DEF new
  <2> QED BY <1>2, <2>1, PlainSteps DEF Plain, missed
<1>4. Current'
  BY <1>0, NoneComesToPend
<1>5. \A r \in {request'[p]} : Asked(r)'
  <2> SUFFICES ASSUME NEW r, r = new PROVE Asked(r)'
    BY <1>2
  <2>1. IsToken(r.token)
    BY <1>0 DEF Asked
  <2>2. CASE yaml.kernels # {}
    <3>1. Imported(yaml.kernels \ yaml.kernels)
      BY DEF Imported
    <3> QED BY <1>0, <2>1, <2>2, <3>1, <1>3, AskedStays DEF Asked, Shape, FilesType
  <2>3. CASE yaml.kernels = {}
    <3>1. Good(r.token, ErrorPage)
      BY <2>3 DEF Good, Right
    <3> QED BY <2>1, <2>3, <3>1, <1>3, AskedStays DEF Asked, Shape
  <2> QED BY <2>2, <2>3
<1>6. \A g \in {page'[p]} : Shown(g)'
  BY <1>1, <1>3, ShownStays DEF ViewInv
<1> QED BY <1>1, <1>2, <1>3, <1>4, <1>5, <1>6, ServerSteps

LEMMA ImportKeeps == ASSUME ViewInv, NEW p \in Pages, ImportKernel(p) PROVE ViewInv'
<1> USE DEF ImportKernel, At, Goes, disk, view
<1> DEFINE K == request[p].yaml.kernels
           todo == request[p].todo
           T == request[p].token
<1>0. FilesType /\ Asked(request[p]) /\ request[p].at = "import"
      /\ request[p] = [at |-> "import", token |-> T, yaml |-> request[p].yaml, todo |-> todo]
      /\ todo \subseteq K /\ K \subseteq Kernels /\ Imported(K \ todo) /\ IsToken(T)
      /\ (Fresh(T) => request[p].yaml = yaml) /\ request[p].yaml.ver \in Nat
  BY DEF ViewInv, Asked, Shape
<1>1. PICK k \in todo :
        /\ loaded' \in ImportsOf(loaded, ImportedFrom[k])
        /\ request' = [request EXCEPT ![p] =
              IF ImportRaises(ImportedFrom[k])
              THEN [at |-> "answer", token |-> T, shown |-> ErrorPage]
              ELSE IF todo = {k}
                   THEN [at |-> "describe", token |-> T, yaml |-> request[p].yaml]
                   ELSE [request[p] EXCEPT !.todo = @ \ {k}]]
  OBVIOUS
<1> DEFINE m == ImportedFrom[k]
           new == IF ImportRaises(m) THEN [at |-> "answer", token |-> T, shown |-> ErrorPage]
                  ELSE IF todo = {k} THEN [at |-> "describe", token |-> T, yaml |-> request[p].yaml]
                  ELSE [at |-> "import", token |-> T, yaml |-> request[p].yaml, todo |-> todo \ {k}]
<1>2. request' = [request EXCEPT ![p] = new] /\ page' = page /\ request'[p] = new
      /\ \A q \in Pages : q # p => request'[q] = request[q]
  <2>1. [request[p] EXCEPT !.todo = @ \ {k}]
           = [at |-> "import", token |-> T, yaml |-> request[p].yaml, todo |-> todo \ {k}]
    <3> DEFINE y == request[p].yaml
    <3>1. request[p] = [at |-> "import", token |-> T, yaml |-> y, todo |-> todo]
      BY <1>0
    <3> HIDE DEF T, y, todo
    <3>2. [request[p] EXCEPT !.todo = @ \ {k}] = [at |-> "import", token |-> T, yaml |-> y, todo |-> todo \ {k}]
      BY <3>1
    <3> QED BY <3>2 DEF y
  <2> QED BY <1>0, <1>1, <2>1 DEF FilesType
<1>3. k \in Kernels /\ m \in Modules /\ Sane(loaded) /\ SourceType
  BY <1>0, Names DEF FilesType, ModulesType, SourceType, Sane
<1>4. /\ Grown(loaded, loaded')
      /\ ImportRaises(m) => \E w \in {m, Package[m]} : \E x \in {w} \cup Children(w) : ~source[x].ok
      /\ ~ImportRaises(m) => m \in DOMAIN loaded'
  <2>1. PICK n \in ImportsOf(loaded, m) : n = loaded'
    BY <1>1
  <2>2. Grown(loaded, n) /\ (m \notin DOMAIN loaded /\ ~({m, Package[m]} \subseteq DOMAIN n) =>
                 \E w \in {m, Package[m]} : \E x \in {w} \cup Children(w) : ~source[x].ok)
    BY <1>0, <1>3, Imports
  <2> QED BY <2>1, <2>2 DEF ImportRaises, Grown
<1>5. Onward
  <2>1. new.at \in {"answer", "import", "describe"} /\ (new.at # "answer" => new.yaml = request[p].yaml)
    OBVIOUS
  <2> HIDE DEF new
  <2> QED BY <1>0, <1>2, <1>4, <2>1, PlainSteps DEF Plain, Grown, missed
<1> HIDE DEF m
<1>6. FilesType'
  <2>1. watched' = watched /\ source' = source
    OBVIOUS
  <2>2. ModulesType'
    BY <1>0, <1>4, <2>1 DEF FilesType, ModulesType, SourceType, Grown, Sane, AreStamps, Children, Classes
  <2> HIDE DEF new
  <2> QED BY <1>0, <1>2, <2>2, ServedTypes
<1>7. Current'
  <2>0. \A x \in DOMAIN loaded : \A d \in Classes(x) : Clean(x, d) => UpToDate(x, d)
    BY <1>0, NonePending
  <2>1. ASSUME NEW x \in DOMAIN loaded', NEW d \in Classes(x), Clean(x, d)' PROVE UpToDate(x, d)'
    <3>1. Clean(x, d) /\ (loaded'[x][d] = source[d].ver => UpToDate(x, d)')
      BY <2>1, CleanStays
    <3>2. CASE x \in DOMAIN loaded
      BY <1>4, <2>0, <3>1, <3>2 DEF UpToDate, Grown
    <3>3. CASE x \notin DOMAIN loaded /\ d = x
      BY <1>4, <2>1, <3>1, <3>3 DEF Grown
    <3>4. CASE x \notin DOMAIN loaded /\ d # x
      <4>1. d \in DOMAIN loaded' /\ d \in Classes(d) /\ loaded'[x][d] = loaded'[d][d]
        BY <1>4, <2>1, <3>4, Names DEF Grown, Sane
      <4>2. Clean(d, d)
        BY <3>1 DEF Clean
      <4>3. loaded'[d][d] = source[d].ver
        BY <1>4, <2>0, <4>1, <4>2 DEF Grown, UpToDate
      <4> QED BY <3>1, <4>1, <4>3
    <3> QED BY <3>2, <3>3, <3>4
  <2> QED BY <2>1 DEF Current, Classes
<1>8. \A r \in {request'[p]} : Asked(r)'
  <2> SUFFICES ASSUME NEW r, r = new PROVE Asked(r)'
    BY <1>2
  <2>1. IsToken(r.token)'
    <3>1. IsToken(r.token)
      BY <1>0
    <3> QED BY <1>5, <3>1, FactsStay
  <2>2. CASE ImportRaises(m)
    <3>1. Good(T, ErrorPage)
      <4>1. Suspect(Reached(k))
        BY <1>4, <2>2 DEF Suspect, Reached, m
      <4> QED BY <1>0, <1>1, <4>1 DEF Good, Right
    <3>2. Good(r.token, r.shown)'
      BY <1>5, <2>2, <3>1, FactsStay
    <3> QED BY <2>1, <2>2, <3>2 DEF Asked, Shape
  <2>3. CASE ~ImportRaises(m)
    <3>1. \A L, d : Imported(L \ d) => Imported(L \ (d \ {k}))'
      BY <1>4, <2>3 DEF Imported, m, Grown
    <3>2. PICK d, y : d = todo /\ y = request[p].yaml
      OBVIOUS
    <3>3. Imported(y.kernels \ (d \ {k}))'
      BY <1>0, <3>1, <3>2
    <3>a. Fresh(r.token)' => y = yaml
      BY <1>0, <1>5, <2>3, <3>2, FactsStay
    <3>4. CASE todo = {k}
      <4>1. r = [at |-> "describe", token |-> r.token, yaml |-> y]
        BY <2>3, <3>2, <3>4
      <4>2. Imported(r.yaml.kernels)'
        <5>1. r.yaml.kernels = y.kernels \ (d \ {k})
          BY <3>2, <3>4, <4>1
        <5> QED BY <3>3, <5>1
      <4> QED BY <1>0, <1>5, <2>1, <3>2, <3>a, <4>1, <4>2 DEF Asked, Shape, Onward
    <3>5. CASE todo # {k}
      <4>1. r = [at |-> "import", token |-> r.token, yaml |-> y, todo |-> d \ {k}]
        BY <2>3, <3>2, <3>5
      <4>2. Imported(r.yaml.kernels \ r.todo)'
        <5>1. r.yaml.kernels \ r.todo = y.kernels \ (d \ {k})
          BY <4>1
        <5> QED BY <3>3, <5>1
      <4>3. r.todo \subseteq r.yaml.kernels /\ r.yaml.kernels \subseteq Kernels /\ r.yaml.ver \in Nat
        BY <1>0, <3>2, <4>1
      <4> QED BY <1>5, <2>1, <3>a, <4>1, <4>2, <4>3 DEF Asked, Shape, Onward
    <3> QED BY <3>4, <3>5
  <2> QED BY <2>2, <2>3
<1>9. \A g \in {page'[p]} : Shown(g)'
  BY <1>2, <1>5, ShownStays DEF ViewInv
<1> QED BY <1>2, <1>5, <1>6, <1>7, <1>8, <1>9, ServerSteps

\* The modules whose classes are shown were imported, and nothing is pending.
LEMMA DescribeKeeps == ASSUME ViewInv, NEW p \in Pages, Describe(p) PROVE ViewInv'
<1> USE DEF Describe, At, Goes, disk, view
<1> DEFINE K == request[p].yaml.kernels
           T == request[p].token
           cls == [k \in K |-> loaded[ImportedFrom[k]][DefinedIn[k]]]
           shw == [yaml |-> request[p].yaml.ver, class |-> cls]
           new == [at |-> "watch", token |-> T, yaml |-> request[p].yaml, shown |-> shw]
<1>0. FilesType /\ request[p].at = "describe" /\ IsToken(T) /\ K \subseteq Kernels /\ Imported(K)
      /\ request[p].yaml.ver \in Nat /\ (Fresh(T) => request[p].yaml = yaml)
  BY DEF ViewInv, Asked
<1>1. request' = [request EXCEPT ![p] = new] /\ page' = page /\ ModulesType'
  BY <1>0, ModulesStay
<1>2. FilesType' /\ request'[p] = new /\ \A q \in Pages : q # p => request'[q] = request[q]
  <2> HIDE DEF new
  <2> QED BY <1>0, <1>1, ServedTypes
<1>3. \A m \in DOMAIN loaded : m \in Modules /\ loaded[m] \in [Classes(m) -> Nat]
  BY <1>0 DEF FilesType, ModulesType, SourceType, Sane
<1>4. Onward
  <2>1. new.at = "watch" /\ new.yaml = request[p].yaml
    OBVIOUS
  <2> HIDE DEF new
  <2> QED BY <1>0, <1>2, <2>1, PlainSteps DEF Plain, missed
<1>5. Current'
  BY <1>0, NoneComesToPend
<1>6. Good(T, shw)
  <2> SUFFICES ASSUME Fresh(T) PROVE Right(shw)
    BY DEF Good
  <2>1. request[p].yaml = yaml
    BY <1>0
  <2>2. shw # ErrorPage
    <3>1. \A k \in K : loaded[ImportedFrom[k]][DefinedIn[k]] \in Nat
      BY <1>0, <1>3, Names DEF Imported
    <3>2. cls \in [K -> Nat]
      BY <3>1
    <3> HIDE DEF cls
    <3>3. cls \in UNION {[L -> Nat] : L \in SUBSET Kernels}
      BY <1>0, <3>2
    <3> QED BY <1>0, <3>3, ViewAssumption
  <2>3. ASSUME NEW k \in yaml.kernels, ~Suspect(Touched(k))
        PROVE  cls[k] = source[DefinedIn[k]].ver
    <3>1. k \in Kernels /\ DefinedIn[k] \in Classes(ImportedFrom[k]) /\ ImportedFrom[k] \in DOMAIN loaded
      BY <1>0, <2>1, Names DEF Imported
    <3>2. Clean(ImportedFrom[k], DefinedIn[k])
      BY <2>3 DEF Clean, Suspect, Touched
    <3> QED BY <1>0, <2>1, <3>1, <3>2, NonePending DEF UpToDate
  <2> HIDE DEF cls
  <2> QED BY <2>1, <2>2, <2>3 DEF Right
<1>7. \A r \in {request'[p]} : Asked(r)'
  <2> SUFFICES ASSUME NEW r, r = new PROVE Asked(r)'
    BY <1>2
  <2>1. /\ r.at = "watch" /\ r = [at |-> "watch", token |-> r.token, yaml |-> r.yaml, shown |-> r.shown]
        /\ r.token = T /\ r.shown = shw /\ r.yaml = request[p].yaml
    OBVIOUS
  <2> HIDE DEF new, shw, T
  <2>2. IsToken(r.token) /\ Good(r.token, r.shown)
    BY <1>0, <1>6, <2>1
  <2>3. Asked(r)
    BY <1>0, <2>1, <2>2 DEF Asked, Shape
  <2> QED BY <1>4, <2>3, AskedStays
<1>8. \A g \in {page'[p]} : Shown(g)'
  BY <1>1, <1>4, ShownStays DEF ViewInv
<1> QED BY <1>1, <1>2, <1>4, <1>5, <1>7, <1>8, ServerSteps

\* Where the YAML is the one a token knows of, what it watched stays watched.
LEMMA WatchKeeps == ASSUME ViewInv, NEW p \in Pages, Watch(p) PROVE ViewInv'
<1> USE DEF Watch, At, Goes, disk
<1> DEFINE K == request[p].yaml.kernels
           T == request[p].token
           W == ToWatch(K) \cap DOMAIN loaded
           new == [at |-> "answer", token |-> T, shown |-> request[p].shown]
<1>0. FilesType /\ request[p].at = "watch" /\ IsToken(T) /\ Good(T, request[p].shown)
  BY DEF ViewInv, Asked
<1>1. request' = [request EXCEPT ![p] = new] /\ page' = page /\ watched' = Stamps(W)
  OBVIOUS
<1>2. AreStamps(watched')
  BY <1>0, <1>1, StampsAreSane
<1>3. ModulesType'
  BY <1>0, <1>2 DEF FilesType, ModulesType, SourceType, Sane, AreStamps, Children, Classes, Modules
<1>4. FilesType' /\ request'[p] = new /\ \A q \in Pages : q # p => request'[q] = request[q]
  <2> HIDE DEF new
  <2> QED BY <1>0, <1>1, <1>3, ServedTypes
<1>5. Onward
  <2>1. ASSUME NEW U, Outgrown(U) PROVE Outgrown(U)'
    <3>1. request[p].yaml = yaml
      BY <1>0, <2>1 DEF Outgrown
    <3>a. PICK k \in yaml.kernels : \E m \in Touched(k) : Beyond(U, m)
      BY <2>1 DEF Outgrown
    <3>2. PICK m \in Touched(k) : Beyond(U, m)
      BY <3>a
    <3>3. m \in W
      BY <1>0, <3>1, <3>2 DEF Beyond, Touched, ToWatch, FilesType, ModulesType, AreStamps
    <3>4. new.at = "answer"
      OBVIOUS
    <3> HIDE DEF new, W
    <3>5. \A q \in Pages : /\ request'[q].at \in {"import", "describe", "watch"} => request'[q].yaml = yaml
                           /\ request'[q].at = "restamp" => m \in DOMAIN request'[q].stamps
      BY <1>4, <2>1, <3>2, <3>4 DEF Outgrown, Beyond
    <3>6. m \in DOMAIN watched'
      BY <1>1, <3>3 DEF Stamps
    <3> QED BY <3>2, <3>5, <3>6 DEF Outgrown, Beyond, Touched
  <2> QED BY <2>1 DEF Onward, missed
<1>6. Current'
  BY <1>0, NoneComesToPend
<1>7. \A r \in {request'[p]} : Asked(r)'
  <2> SUFFICES ASSUME NEW r, r = new PROVE Asked(r)'
    BY <1>4
  <2>1. Asked(r)
    BY <1>0 DEF Asked, Shape
  <2> QED BY <1>5, <2>1, AskedStays
<1>8. \A g \in {page'[p]} : Shown(g)'
  BY <1>1, <1>5, ShownStays DEF ViewInv
<1> QED BY <1>1, <1>4, <1>5, <1>6, <1>7, <1>8, ServerSteps

\* The request is over: nothing was loaded or stamped.
LEMMA Over ==
    ASSUME ViewInv, NEW p \in Pages, request' = [request EXCEPT ![p] = Idle],
           UNCHANGED <<disk, view>>
    PROVE  /\ request'[p] = Idle /\ \A q \in Pages : q # p => request'[q] = request[q]
           /\ Onward /\ Current' /\ ModulesType'
           /\ request' \in [Pages -> {request'[q] : q \in Pages}]
           /\ \A r \in {request'[p]} : Asked(r)'
<1> USE DEF disk, view, missed
<1>0. FilesType
  BY DEF ViewInv
<1>1. /\ request'[p] = Idle /\ \A q \in Pages : q # p => request'[q] = request[q]
      /\ request' \in [Pages -> {request'[q] : q \in Pages}]
  BY <1>0 DEF FilesType
<1>2. Onward
  BY <1>1, PlainSteps DEF Plain, Idle
<1>3. Current'
  BY <1>1, CurrentStays DEF Waits, Idle
<1>4. ModulesType'
  BY <1>0, ModulesStay
<1>5. \A r \in {request'[p]} : Asked(r)'
  BY <1>1 DEF Asked, Shape, Idle
<1> QED BY <1>1, <1>2, <1>3, <1>4, <1>5

LEMMA AnswerKeeps == ASSUME ViewInv, NEW p \in Pages, Answer(p) PROVE ViewInv'
<1> USE DEF Answer, At, Goes
<1> DEFINE new == [shown |-> request[p].shown, opened |-> TRUE, pulled |-> page[p].opened,
                   token |-> TokenAfter(p)]
<1>0. FilesType /\ Asked(request[p]) /\ request[p].at = "answer"
  BY DEF ViewInv
<1>1. /\ request'[p] = Idle /\ \A q \in Pages : q # p => request'[q] = request[q]
      /\ Onward /\ Current' /\ ModulesType'
      /\ request' \in [Pages -> {request'[q] : q \in Pages}]
      /\ \A r \in {request'[p]} : Asked(r)'
  BY Over
<1>2. page' = [page EXCEPT ![p] = new]
  OBVIOUS
<1>3. page'[p] = new /\ \A q \in Pages : q # p => page'[q] = page[q]
  BY <1>0, <1>2 DEF FilesType
<1>4. FilesType'
  <2>1. page' \in [Pages -> {page'[q] : q \in Pages}]
    BY <1>0, <1>2 DEF FilesType
  <2>2. \A q \in Pages : page'[q] = [shown |-> page'[q].shown, token |-> page'[q].token,
                                     opened |-> page'[q].opened, pulled |-> page'[q].pulled]
    BY <1>0, <1>3 DEF FilesType
  <2> QED BY <1>0, <1>1, <2>1, <2>2 DEF FilesType, disk
<1>5. \A g \in {page'[p]} : Shown(g)'
  <2> SUFFICES ASSUME NEW g, g = new, g.pulled PROVE IsToken(g.token)' /\ Good(g.token, g.shown)'
    BY <1>3 DEF Shown
  <2>1. g.token = request[p].token /\ g.shown = request[p].shown
    BY DEF TokenAfter
  <2>2. IsToken(g.token) /\ Good(g.token, g.shown)
    BY <1>0, <2>1 DEF Asked
  <2> QED BY <1>1, <2>2, FactsStay
<1> QED BY <1>1, <1>3, <1>4, <1>5, ServerSteps

LEMMA LostKeeps == ASSUME ViewInv, NEW p \in Pages, Lost(p) PROVE ViewInv'
<1> USE DEF Lost, At, Goes
<1>0. FilesType
  BY DEF ViewInv
<1>1. /\ request'[p] = Idle /\ \A q \in Pages : q # p => request'[q] = request[q]
      /\ Onward /\ Current' /\ ModulesType'
      /\ request' \in [Pages -> {request'[q] : q \in Pages}]
      /\ \A r \in {request'[p]} : Asked(r)'
  BY Over
<1>2. FilesType'
  BY <1>0, <1>1 DEF FilesType, disk
<1>3. \A g \in {page'[p]} : Shown(g)'
  BY <1>1, ShownStays DEF ViewInv
<1> QED BY <1>1, <1>2, <1>3, ServerSteps

-----------------------------------------------------------------------------
(* The world *)

\* Who knew the edited module by its version knows no more, and who did not is
\* outgrown, or the module is remembered as unseen; a quiet edit mends what was missed.
LEMMA EditModuleKeeps ==
    ASSUME ViewInv, NEW m \in Modules, NEW ok \in BOOLEAN, EditModule(m, ok)
    PROVE  ViewInv'
<1> USE DEF EditModule
<1>0. FilesType
  BY DEF ViewInv
<1>1. /\ UNCHANGED <<yaml, loaded, watched, request, page>>
      /\ source' \in [Modules -> [ver : Nat, ok : BOOLEAN]]
      /\ source[m].ver \in Nat /\ source'[m].ver = source[m].ver + 1
      /\ \A x \in Modules : x # m => source'[x] = source[x]
      /\ \A x \in Modules : source[x].ver \in Nat /\ source[x].ver <= source'[x].ver
  BY <1>0 DEF FilesType, ModulesType, SourceType, Sane
<1>2. /\ \A x : x \in Concerned(m) <=> x = m \/ m \in Children(x)
      /\ \A k \in yaml.kernels : Touched(k) \subseteq ToWatch(yaml.kernels)
  BY Names DEF Concerned, Touched, ToWatch
<1>3. ASSUME NEW x \in Concerned(m), x \notin Missed', m \notin Missed'
      PROVE  x \in Seen /\ m \in Seen /\ ~Comparing
  BY <1>2, <1>3 DEF Missed
<1>a. \A x : x \in Missed /\ x \notin Missed' => x \in Concerned(m) /\ x \in Seen /\ m \in Seen /\ ~Comparing
  BY DEF Missed
<1>4. Comparing => unseen' = unseen \cup {m} /\ skipped' = skipped
  OBVIOUS
<1>e. ASSUME NEW w, AreStamps(w) PROVE AreStamps(w)'
  <2>1. \A x \in DOMAIN w : x \in Modules /\ w[x] \in Nat /\ w[x] <= source[x].ver
    BY <1>0, <1>e DEF FilesType, ModulesType, Sane, AreStamps
  <2>2. \A x \in DOMAIN w : w[x] <= source'[x].ver
    BY <1>1, <2>1
  <2> QED BY <1>1, <1>e, <2>2 DEF AreStamps
<1>5. FilesType'
  <2>2. AreStamps(watched)'
    BY <1>0, <1>1, <1>e DEF FilesType, ModulesType
  <2>3. SourceType'
    BY <1>1 DEF SourceType, Modules
  <2>a. Sane(loaded)'
    <3>1. Sane(loaded)
      BY <1>0 DEF FilesType, ModulesType, SourceType, Sane
    <3>2. loaded' = loaded
      BY <1>1
    <3> QED BY <3>1, <3>2 DEF Sane, Children, Classes, Modules
  <2>4. ModulesType'
    BY <1>1, <2>2, <2>3, <2>a DEF ModulesType
  <2> QED BY <1>0, <1>1, <2>4 DEF FilesType
<1>6. Current'
  <2> SUFFICES ASSUME NEW x \in DOMAIN loaded, NEW d \in Classes(x), Clean(x, d)'
               PROVE  UpToDate(x, d)' \/ Pending(x, d)'
    BY <1>1 DEF Current, Classes
  <2>1. x \in Modules /\ d \in Modules /\ (d = x \/ d \in Children(x))
    BY <1>0, Names DEF FilesType, ModulesType, SourceType, Sane
  <2>a. \A y \in {x, d} : source'[y].ok /\ y \notin Missed'
    BY DEF Clean
  <2>b. ASSUME x \in Seen, m \in Seen, ~Comparing, x = m \/ Package[m] = x PROVE Pending(x, d)'
    <3>1. x \in DOMAIN watched /\ m \in DOMAIN watched
      BY <2>b DEF Seen
    <3>2. source'[m].ver # watched[m]
      BY <1>0, <1>1, <3>1 DEF FilesType, ModulesType, SourceType, AreStamps
    <3>3. x \in Targets'
      BY <1>1, <2>b, <3>1, <3>2 DEF Targets, ModuleMtime
    <3>4. \A q \in Pages : request[q].at \in {"none", "look", "answer"}
      BY <2>b DEF Comparing
    <3> QED BY <1>1, <3>3, <3>4 DEF Pending, Waits
  <2>2. CASE m \notin {x, d}
    <3>1. CASE x \in Missed \/ d \in Missed
      <4>1. PICK y \in {x, d} : y \in Concerned(m) /\ m \in Seen /\ y \in Seen /\ ~Comparing
        BY <1>a, <2>a, <3>1
      <4>2. y = x /\ m \in Children(x)
        BY <1>2, <2>1, <2>2, <4>1, Names
      <4> QED BY <2>b, <4>1, <4>2, Names
    <3>2. CASE x \notin Missed /\ d \notin Missed
      <4>1. Clean(x, d)
        BY <1>1, <2>1, <2>a, <2>2, <3>2 DEF Clean
      <4>2. UpToDate(x, d) => UpToDate(x, d)'
        BY <1>1, <2>1, <2>2 DEF UpToDate
      <4>3. \A w \in DOMAIN watched : source[w].ver # watched[w] => source'[w].ver # watched[w]
        BY <1>0, <1>1 DEF FilesType, ModulesType, SourceType, Sane, AreStamps
      <4>4. Targets \subseteq Targets'
        BY <1>1, <4>3 DEF Targets, ModuleMtime
      <4>5. Pending(x, d) => Pending(x, d)'
        BY <1>1, <4>4 DEF Pending, Waits
      <4> QED BY <4>1, <4>2, <4>5 DEF ViewInv, Current
    <3> QED BY <3>1, <3>2
  <2>3. CASE m \in {x, d}
    <3>1. x \in Concerned(m) /\ x \notin Missed' /\ m \notin Missed'
      BY <1>2, <2>1, <2>a, <2>3
    <3>2. x \in Seen /\ m \in Seen /\ ~Comparing
      BY <1>3, <3>1
    <3> QED BY <2>1, <2>3, <2>b, <3>2, Names
  <2> QED BY <2>2, <2>3
<1>7. ASSUME NEW T, IsToken(T)
      PROVE  IsToken(T)' /\ (Fresh(T)' => Fresh(T) /\ m \notin DOMAIN T[2])
  <2>1. IsToken(T)'
    BY <1>1, <1>7 DEF IsToken
  <2>2. ASSUME Fresh(T)' PROVE m \notin DOMAIN T[2]
    BY <1>1, <1>7, <2>2 DEF IsToken, Fresh
  <2>3. ASSUME Fresh(T)' PROVE Fresh(T)
    <3>1. \A x \in DOMAIN T[2] : source'[x] = source[x]
      BY <1>1, <1>7, <2>2, <2>3 DEF IsToken
    <3> QED BY <1>1, <2>3, <3>1 DEF Fresh
  <2> QED BY <2>1, <2>2, <2>3
<1>b. ASSUME NEW T, m \notin DOMAIN T[2], ~Comparing, m \in Seen
      PROVE  Outgrown(T)'
  <2>1. PICK k \in yaml.kernels : m \in Touched(k)
    BY <1>b DEF Seen, ToWatch, Touched
  <2>2. \A q \in Pages : request'[q].at \notin {"restamp", "import", "describe", "watch"}
    BY <1>1, <1>b DEF Comparing
  <2> QED BY <1>1, <1>b, <2>1, <2>2 DEF Outgrown, Beyond, Touched, Seen
<1>c. ASSUME NEW T, m \notin DOMAIN T[2], ~Outgrown(T)'
      PROVE  Missed' = Missed \cup {m}
  <2>1. Comparing \/ m \notin Seen
    BY <1>b, <1>c
  <2> QED BY <2>1 DEF Missed
<1>d. ASSUME NEW T, m \notin DOMAIN T[2], ~Outgrown(T)', NEW M, Suspect(M)
      PROVE  Suspect(M)'
  <2>1. PICK x \in M : ~source[x].ok \/ x \in Missed
    BY <1>d DEF Suspect
  <2>2. x \in Missed' \/ (x # m /\ ~source[x].ok)
    BY <1>c, <1>d, <2>1
  <2>3. x # m => source'[x] = source[x]
    OBVIOUS
  <2> QED BY <2>1, <2>2, <2>3 DEF Suspect
<1>8. ASSUME NEW T, m \notin DOMAIN T[2], ~Outgrown(T)', NEW k \in yaml.kernels
      PROVE  /\ Suspect(Reached(k)) => Suspect(Reached(k))'
             /\ Suspect(Touched(k)) => Suspect(Touched(k))'
             /\ Suspect(Touched(k))' \/ source'[DefinedIn[k]] = source[DefinedIn[k]]
  <2>1. k \in Kernels
    BY <1>0 DEF FilesType
  <2>2. PICK R, S : R = Reached(k) /\ S = Touched(k)
    OBVIOUS
  <2>3. R = Reached(k)' /\ S = Touched(k)'
    BY <2>2 DEF Reached, Touched, Children, Classes
  <2>4. (Suspect(R) => Suspect(R)') /\ (Suspect(S) => Suspect(S)')
    BY <1>8, <1>d
  <2>5. Suspect(S)' \/ source'[DefinedIn[k]] = source[DefinedIn[k]]
    <3>1. CASE DefinedIn[k] # m
      BY <1>1, <2>1, <3>1, Names
    <3>2. CASE DefinedIn[k] = m
      BY <1>8, <1>c, <2>2, <3>2 DEF Suspect, Touched
    <3> QED BY <3>1, <3>2
  <2> QED BY <2>2, <2>3, <2>4, <2>5
<1>9. ASSUME NEW T, NEW s, IsToken(T), Good(T, s) PROVE Good(T, s)'
  <2> SUFFICES ASSUME Fresh(T)', ~Outgrown(T)' PROVE Right(s)'
    BY DEF Good
  <2>1. Fresh(T) /\ m \notin DOMAIN T[2]
    BY <1>7, <1>9
  <2>2. ~Outgrown(T)
    BY <1>1 DEF Outgrown, Beyond, Touched
  <2>3. Right(s)
    BY <1>9, <2>1, <2>2 DEF Good
  <2>4. \A k \in yaml.kernels : /\ Suspect(Reached(k)) => Suspect(Reached(k))'
                                /\ Suspect(Touched(k)) => Suspect(Touched(k))'
                                /\ Suspect(Touched(k))' \/ source'[DefinedIn[k]] = source[DefinedIn[k]]
    BY <1>8, <2>1
  <2> QED BY <1>1, <2>3, <2>4 DEF Right
<1>10. ASSUME NEW p \in Pages, NEW r \in {request'[p]} PROVE Asked(r)'
  <2>1. Asked(r)
    BY <1>1 DEF ViewInv
  <2>2. IsToken(r.token) => IsToken(r.token)' /\ (Fresh(r.token)' => Fresh(r.token))
    BY <1>7
  <2>3. IsToken(r.token) /\ Good(r.token, r.shown) => Good(r.token, r.shown)'
    BY <1>9
  <2>4. yaml' = yaml /\ loaded' = loaded
    BY <1>1
  <2>5. ASSUME r.at = "execute", Executes(r) PROVE Executes(r)'
    <3>1. Comparing
      BY <1>1, <2>5 DEF Comparing
    <3>2. unseen' = unseen \cup {m}
      BY <1>4, <3>1
    <3>3. r.src = source'[r.module] \/ r.module \in unseen'
      BY <1>0, <1>1, <2>5, <3>2 DEF Executes, FilesType, ModulesType, Sane
    <3> QED BY <2>4, <2>5, <3>3 DEF Executes, Classes
  <2>6. AreStamps(r.stamps) => AreStamps(r.stamps)'
    BY <1>e
  <2> QED BY <2>1, <2>2, <2>3, <2>4, <2>5, <2>6 DEF Asked, Shape, Imported
<1>11. ASSUME NEW p \in Pages, NEW g \in {page'[p]} PROVE Shown(g)'
  <2>1. Shown(g)
    BY <1>1 DEF ViewInv
  <2>2. IsToken(g.token) => IsToken(g.token)'
    BY <1>7
  <2>3. IsToken(g.token) /\ Good(g.token, g.shown) => Good(g.token, g.shown)'
    BY <1>9
  <2> QED BY <2>1, <2>2, <2>3 DEF Shown
<1> QED BY <1>5, <1>6, <1>10, <1>11 DEF ViewInv

\* Every token is of an older YAML.
LEMMA EditYamlKeeps ==
    ASSUME ViewInv, NEW K \in Yamls, EditYaml(K)
    PROVE  ViewInv'
<1> USE DEF EditYaml, missed
<1>0. FilesType /\ K \subseteq Kernels
  BY ViewAssumption DEF ViewInv
<1>1. yaml'.ver = yaml.ver + 1 /\ yaml.ver \in Nat
  BY <1>0 DEF FilesType
<1>2. FilesType'
  <2>1. ModulesType'
    BY <1>0, ModulesStay DEF view
  <2> QED BY <1>0, <1>1, <2>1 DEF FilesType
<1>3. Current'
  <2>1. Targets' = Targets
    BY DEF Targets, ModuleMtime, Children
  <2>2. \A m, d : Pending(m, d) => Pending(m, d)'
    BY <2>1 DEF Pending, Waits
  <2>3. \A m, d : (Clean(m, d)' => Clean(m, d)) /\ (UpToDate(m, d) => UpToDate(m, d)')
    BY DEF Clean, UpToDate, Missed
  <2> QED BY <2>2, <2>3 DEF ViewInv, Current, Classes
<1>4. \A T : IsToken(T) => IsToken(T)' /\ ~Fresh(T)'
  BY <1>1 DEF IsToken, Fresh
<1>5. ASSUME NEW p \in Pages, NEW r \in {request'[p]} PROVE Asked(r)'
  <2>1. Asked(r)
    BY DEF ViewInv
  <2>2. IsToken(r.token) => IsToken(r.token)' /\ ~Fresh(r.token)'
    BY <1>4
  <2>3. ~Fresh(r.token)' => Good(r.token, r.shown)'
    BY DEF Good
  <2>4. (AreStamps(r.stamps) => AreStamps(r.stamps)') /\ (Executes(r) => Executes(r)')
    BY DEF AreStamps, Executes, Classes
  <2> QED BY <2>1, <2>2, <2>3, <2>4 DEF Asked, Shape, Imported
<1>6. ASSUME NEW p \in Pages, NEW g \in {page'[p]} PROVE Shown(g)'
  <2>1. Shown(g)
    BY DEF ViewInv
  <2>2. IsToken(g.token) => IsToken(g.token)' /\ ~Fresh(g.token)'
    BY <1>4
  <2>3. ~Fresh(g.token)' => Good(g.token, g.shown)'
    BY DEF Good
  <2> QED BY <2>1, <2>2, <2>3 DEF Shown
<1> QED BY <1>2, <1>3, <1>5, <1>6 DEF ViewInv

\* The server starts with nothing loaded and nothing watched, and no page has
\* pulled from it.
LEMMA Started ==
    ASSUME yaml.ver \in Nat, yaml.kernels \subseteq Kernels,
           yaml = [ver |-> yaml.ver, kernels |-> yaml.kernels],
           source \in [Modules -> [ver : Nat, ok : BOOLEAN]],
           loaded = EmptyMap, watched = EmptyMap, request = [p \in Pages |-> Idle],
           page = [p \in Pages |-> page[p]],
           \A p \in Pages : page[p] = [shown |-> page[p].shown, token |-> page[p].token,
                                       opened |-> page[p].opened, pulled |-> FALSE]
    PROVE  ViewInv
<1>1. DOMAIN loaded = {} /\ DOMAIN watched = {}
  BY DEF EmptyMap
<1>2. loaded = [m \in DOMAIN loaded |-> loaded[m]] /\ watched \in [{} -> Nat]
  BY DEF EmptyMap
<1>3. FilesType
  <2>1. ModulesType
    BY <1>1, <1>2 DEF ModulesType, SourceType, Sane, AreStamps
  <2> QED BY <2>1 DEF FilesType
<1>4. Current
  BY <1>1 DEF Current
<1>5. \A p \in Pages : \A r \in {request[p]} : Asked(r)
  BY DEF Asked, Shape, Idle
<1>6. \A p \in Pages : \A g \in {page[p]} : Shown(g)
  BY DEF Shown
<1> QED BY <1>3, <1>4, <1>5, <1>6 DEF ViewInv

LEMMA InitView == Init => ViewInv
<1> SUFFICES ASSUME Init PROVE ViewInv
  OBVIOUS
<1>1. yaml.ver \in Nat /\ yaml.kernels \subseteq Kernels /\ yaml = [ver |-> yaml.ver, kernels |-> yaml.kernels]
  BY ViewAssumption DEF Init
<1>2. source \in [Modules -> [ver : Nat, ok : BOOLEAN]]
  BY DEF Init
<1>3. \A p \in Pages : page[p] = [shown |-> page[p].shown, token |-> page[p].token,
                                  opened |-> page[p].opened, pulled |-> FALSE]
  BY DEF Init
<1> QED BY <1>1, <1>2, <1>3, Started DEF Init

LEMMA RestartKeeps == ASSUME ViewInv, Restart PROVE ViewInv'
<1>0. FilesType
  BY DEF ViewInv
<1>1. ASSUME NEW p \in Pages
      PROVE  page'[p] = [shown |-> page'[p].shown, token |-> page'[p].token,
                         opened |-> page'[p].opened, pulled |-> FALSE]
  <2>1. PICK s, t, o, l : page[p] = [shown |-> s, token |-> t, opened |-> o, pulled |-> l]
    BY <1>0 DEF FilesType
  <2>2. page'[p] = [page[p] EXCEPT !.pulled = FALSE]
    BY DEF Restart
  <2>3. page'[p] = [shown |-> s, token |-> t, opened |-> o, pulled |-> FALSE]
    <3>1. \A f : [[shown |-> s, token |-> t, opened |-> o, pulled |-> l] EXCEPT !.pulled = f]
                   = [shown |-> s, token |-> t, opened |-> o, pulled |-> f]
      OBVIOUS
    <3> QED BY <2>1, <2>2, <3>1, Zenon
  <2> QED BY <2>3
<1>2. page' = [p \in Pages |-> page'[p]]
  BY DEF Restart
<1>a. /\ DOMAIN loaded' = {} /\ DOMAIN watched' = {}
      /\ loaded' = [m \in DOMAIN loaded' |-> loaded'[m]] /\ watched' \in [{} -> Nat]
  BY DEF Restart, EmptyMap
<1>b. ModulesType'
  BY <1>0, <1>a DEF FilesType, ModulesType, SourceType, Sane, AreStamps, Restart, Modules
<1>c. request' \in [Pages -> {request'[p] : p \in Pages}]
  BY DEF Restart
<1>3. FilesType'
  BY <1>0, <1>1, <1>2, <1>b, <1>c DEF FilesType, Restart, missed
<1>4. Current'
  BY DEF Current, Restart, EmptyMap
<1>5. \A p \in Pages : \A r \in {request'[p]} : Asked(r)'
  BY DEF Asked, Shape, Idle, Restart
<1>6. \A p \in Pages : \A g \in {page'[p]} : Shown(g)'
  <2> SUFFICES ASSUME NEW p \in Pages, NEW g, g = page'[p] PROVE g.pulled = FALSE
    BY DEF Shown
  <2>1. g = [shown |-> g.shown, token |-> g.token, opened |-> g.opened, pulled |-> FALSE]
    BY <1>1
  <2> QED BY <2>1
<1> QED BY <1>3, <1>4, <1>5, <1>6 DEF ViewInv

LEMMA NextKeepsView == ViewInv /\ [Next]_vars => ViewInv'
<1> SUFFICES ASSUME ViewInv, [Next]_vars PROVE ViewInv'
  OBVIOUS
<1>1. ASSUME NEW p \in Pages, Ask(p) \/ Serve(p) \/ Answer(p) \/ Lost(p) PROVE ViewInv'
  BY <1>1, AskKeeps, LookKeeps, SkipKeeps, RaisesKeeps, ReloadKeeps, BindKeeps, ReloadedKeeps,
     StampKeeps, RestampKeeps, ReadKeeps, ImportKeeps, DescribeKeeps, WatchKeeps, AnswerKeeps, LostKeeps
     DEF Serve
<1>2. ASSUME NEW m \in Modules, NEW ok \in BOOLEAN, EditModule(m, ok) PROVE ViewInv'
  BY <1>2, EditModuleKeeps
<1>3. ASSUME NEW K \in Yamls, EditYaml(K) PROVE ViewInv'
  BY <1>3, EditYamlKeeps
<1>4. CASE Restart
  BY <1>4, RestartKeeps
<1>5. CASE UNCHANGED vars
  <2> USE <1>5 DEF vars, missed
  <2>1. Onward
    BY DEF Onward, Outgrown, Beyond, Touched
  <2>2. FilesType'
    <3>1. ModulesType'
      BY ModulesStay DEF ViewInv, view
    <3> QED BY <3>1 DEF ViewInv, FilesType
  <2>3. Current'
    <3>1. \A m, d : Pending(m, d) => Pending(m, d)'
      BY DEF Pending, Waits, Targets, ModuleMtime
    <3>2. \A m, d : (Clean(m, d)' => Clean(m, d)) /\ (UpToDate(m, d) => UpToDate(m, d)')
      BY DEF Clean, UpToDate, Missed
    <3> QED BY <3>1, <3>2 DEF ViewInv, Current, Classes
  <2>4. ASSUME NEW p \in Pages, NEW r \in {request'[p]} PROVE Asked(r)'
    <3>1. Asked(r)
      BY DEF ViewInv
    <3> QED BY <2>1, <3>1, AskedStays
  <2>5. ASSUME NEW p \in Pages, NEW g \in {page'[p]} PROVE Shown(g)'
    <3>1. Shown(g)
      BY DEF ViewInv
    <3> QED BY <2>1, <3>1, ShownStays
  <2> QED BY <2>2, <2>3, <2>4, <2>5 DEF ViewInv
<1> QED BY <1>1, <1>2, <1>3, <1>4, <1>5 DEF Next

\* A token that equals the state knows of all that is watched.
LEMMA CurrentWhenSettled == ViewInv => SettledIsCurrent
<1> SUFFICES ASSUME ViewInv, NEW p \in Pages, Settled(p) PROVE Right(page[p].shown)
  BY DEF SettledIsCurrent, CurrentBut, Right, Suspect, Missed
<1>1. page[p].pulled /\ page[p].token = State
  BY DEF Settled
<1>2. Good(page[p].token, page[p].shown)
  BY <1>1 DEF ViewInv, Shown
<1>3. Fresh(State) /\ DOMAIN State[2] = DOMAIN watched
  BY StateIsToken DEF ViewInv, State, Stamps
<1>4. ~Outgrown(State)
  BY <1>3 DEF Outgrown, Beyond
<1> QED BY <1>1, <1>2, <1>3, <1>4 DEF Good

\* A page that has pulled from the running server and whose token is the
\* server's state shows the YAML and the classes as they are, but for sources
\* that are broken, were edited where no request compares them, or were found
\* under way in the reload of another request (server.py:100).
THEOREM SettledPagesAreCurrent == Spec => []SettledIsCurrent
<1>1. Spec => []ViewInv
  BY InitView, NextKeepsView, PTL DEF Spec
<1> QED BY <1>1, CurrentWhenSettled, PTL
=============================================================================
