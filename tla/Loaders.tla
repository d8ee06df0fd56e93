------------------------------- MODULE Loaders -------------------------------
(***************************************************************************)
(* The two loaders: what _enumerate of FlatDirLoader and of                *)
(* EgoverseDjiLoader make of one listing of a directory.  Files are        *)
(* numbered in the order of their paths, directories in the order of       *)
(* theirs; what the loaders tell apart of a path is its directory, its     *)
(* stem and the class of its extension.                                    *)
(*                                                                         *)
(* An item is a sample, with the files behind its streams, or a finding:   *)
(* an id in error before anything was opened.                              *)
(***************************************************************************)
EXTENDS Integers, SequencesExt

CONSTANTS
    Files,        \* path numbers
    Dir,          \* Dir[f]: the directory f is in
    Stem,         \* Stem[f]: its basename up to the last dot
    Ext,          \* Ext[f]: "video", "json" or "other"
    Basename,     \* Basename[d]: the last segment of directory d
    Top,          \* the root the loader was given
    NoFile,       \* None, where a path is expected
    NoMax         \* None, where max_samples is expected

ASSUME FilesAssumption ==
    /\ Files \subseteq Nat \ {0} /\ NoFile \notin Files
    /\ Ext \in [Files -> {"video", "json", "other"}]
    /\ Dir \in [Files -> DOMAIN Basename] /\ Top \in DOMAIN Basename
    /\ DOMAIN Basename \subseteq Nat

\* The size of an entry whose listing does not give one.
NoSize == -1

-----------------------------------------------------------------------------
(* Order, by rank: a number stands where as many others come before it *)

Before(keys, i, j) == keys[i] < keys[j] \/ (keys[i] = keys[j] /\ i < j)

\* The numbers of S in the order of their keys, of equal keys the lower first.
Ascending(S, keys) ==
    [n \in 1 .. Cardinality(S) |->
        CHOOSE i \in S : Cardinality({j \in S : Before(keys, j, i)}) = n - 1]

InOrder(S) == Ascending(S, [i \in S |-> i])

\* The elements of s at the positions of I.
At(s, I) == LET at == InOrder(I) IN [n \in DOMAIN at |-> s[at[n]]]

-----------------------------------------------------------------------------
(* fsspec: tree maps the files that exist to their sizes *)

FileEntry(tree, f) == [name |-> f, size |-> tree[f], type |-> "file"]

\* One entry stands for the subdirectories that ls lists beside the files.
Subdirectories == [name |-> 0, size |-> NoSize, type |-> "directory"]

\* find answers a dict sorted by path; ls the directory as the filesystem
\* happens to keep it.
Listings(tree, recursive) ==
    IF recursive
    THEN {LET q == InOrder(DOMAIN tree) IN [i \in DOMAIN q |-> FileEntry(tree, q[i])]}
    ELSE SetToSeqs({FileEntry(tree, f) : f \in {f \in DOMAIN tree : Dir[f] = Top}}
                     \cup (IF \E f \in DOMAIN tree : Dir[f] # Top
                           THEN {Subdirectories} ELSE {}))

-----------------------------------------------------------------------------
(* loaders/_fs.py and what both loaders do with its result *)

\* Files only, and a size that is not given is 0.
ListFiles(detail) ==
    LET files == At(detail, {i \in DOMAIN detail : detail[i].type = "file"})
    IN  [i \in DOMAIN files |->
            [name |-> files[i].name,
             size |-> IF files[i].size = NoSize THEN 0 ELSE files[i].size]]

\* Python's sort: s in the order of keys, ties as they came.
SortedBy(s, keys) ==
    LET at == Ascending(DOMAIN s, keys) IN [i \in DOMAIN s |-> s[at[i]]]

\* s[:max_samples]: the first max of n, or all but the last -max.
Kept(n, max) == IF max = NoMax THEN n
                ELSE IF max >= 0 THEN Min({n, max}) ELSE Max({0, n + max})

Cut(s, max) == [i \in 1 .. Kept(Len(s), max) |-> s[i]]

Finding(id) == [kind |-> "finding", id |-> id, video |-> NoFile, json |-> NoFile]

SampleOf(id, video, json) ==
    [kind |-> "sample", id |-> id, video |-> video, json |-> json]

-----------------------------------------------------------------------------
(* FlatDirLoader: one media file, one sample *)

Media(entries) == At(entries, {i \in DOMAIN entries : Ext[entries[i].name] = "video"})

\* The path relative to the root, without its extension.
FlatId(f) == <<Dir[f], Stem[f]>>

CutsFirst(entries, order, max) ==    \* bug: the slice is taken before the sort
    LET media == Cut(Media(entries), max)
    IN  SortedBy(media, [i \in DOMAIN media |->
            IF order = "size" THEN media[i].size ELSE media[i].name])

FlatChosen(entries, order, max) ==
    LET media == Media(entries)
    IN  Cut(SortedBy(media, [i \in DOMAIN media |->
            IF order = "size" THEN media[i].size ELSE media[i].name]), max)

FlatItems(entries, order, max) ==
    LET chosen == FlatChosen(entries, order, max)
    IN  [i \in DOMAIN chosen |->
            IF chosen[i].size = 0 THEN Finding(FlatId(chosen[i].name))
            ELSE SampleOf(FlatId(chosen[i].name), chosen[i].name, NoFile)]

-----------------------------------------------------------------------------
(* EgoverseDjiLoader: one directory, one sample *)

\* A group before the first of its files is looked at; groups are a sequence,
\* since a dict keeps the order in which its keys came.
NewGroup(d) ==
    [id |-> Basename[d], dir |-> d, video |-> NoFile, video_size |-> 0, json |-> NoFile]

LastVideoWins(g, e) ==    \* bug: any media file that is not empty
    IF Ext[e.name] = "video" /\ e.size > 0
    THEN [g EXCEPT !.video = e.name, !.video_size = e.size]
    ELSE IF Ext[e.name] = "json" THEN [g EXCEPT !.json = e.name] ELSE g

GroupWith(g, e) ==
    IF Ext[e.name] = "video" /\ e.size > g.video_size
    THEN [g EXCEPT !.video = e.name, !.video_size = e.size]
    ELSE IF Ext[e.name] = "json" THEN [g EXCEPT !.json = e.name] ELSE g

\* groups.setdefault(sample_id, ...), unless the file is a stray one.
AddToGroups(groups, e) ==
    LET d == Dir[e.name]
        i == SelectInSeq(groups, LAMBDA g : g.id = Basename[d])
    IN  IF d = Top THEN groups
        ELSE IF i = 0 THEN Append(groups, GroupWith(NewGroup(d), e))
        ELSE [groups EXCEPT ![i] = GroupWith(@, e)]

\* The loop over the listing: the groups after n of its entries.
GroupByDirectory(entries) ==
    LET groups[n \in 0 .. Len(entries)] ==
          IF n = 0 THEN <<>> ELSE AddToGroups(groups[n - 1], entries[n])
    IN  groups[Len(entries)]

EgoverseItems(entries, order, max) ==
    LET groups == GroupByDirectory(entries)
        chosen == Cut(SortedBy(groups, [i \in DOMAIN groups |->
                     IF order = "size" THEN groups[i].video_size ELSE groups[i].dir]), max)
    IN  [i \in DOMAIN chosen |->
            IF chosen[i].video = NoFile THEN Finding(chosen[i].id)
            ELSE SampleOf(chosen[i].id, chosen[i].video, chosen[i].json)]

Enumerate(loader, detail, order, max) ==
    IF loader = "flat" THEN FlatItems(ListFiles(detail), order, max)
    ELSE EgoverseItems(ListFiles(detail), order, max)
=============================================================================
