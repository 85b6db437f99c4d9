------------------------------- MODULE Registry -------------------------------
(***************************************************************************)
(* Names and the profiles they mean (src/profile/registry.go): those added *)
(* by the program, this machine's directory, the tree inside the binary    *)
(* and the catalogue of tls-client, in this order.                         *)
(*                                                                         *)
(* A name is the sequence of its words, <<"chrome", "151", "linux">> for   *)
(* chrome_151_linux.  A tree is [flat, dirs]: the content of <name>.json,  *)
(* and for each directory the content of <platform>.json.  A content is a  *)
(* profile, or Broken when what is there does not load.                    *)
(***************************************************************************)
EXTENDS Profiles

CONSTANTS Broken,        \* a file that does not load
          NotFound,      \* no such profile
          Embedded,      \* the tree of the binary
          Files,         \* the files a path may name: path -> content
          Platforms,     \* the platforms, as their file names sort
          HostPlatform,  \* the one of this machine
          Number         \* the words that are numbers: word -> integer

\* The content the file of a profile is read back as.
Stored(p) == IF Loads(p) THEN p ELSE Broken

-----------------------------------------------------------------------------
(* One tree. *)

\* lookup: the flat file; else, when there is a directory of the name, the platform of the
\* host or the first there is, or nothing; else the platform the last word names.
Lookup(tree, name) ==
    LET version  == Front(name)
        platform == Last(name)
    IN IF name \in DOMAIN tree.flat THEN tree.flat[name]
       ELSE IF name \in DOMAIN tree.dirs
       THEN LET files == tree.dirs[name]
                there == SelectSeq(Platforms, LAMBDA p : p \in DOMAIN files)
            IN IF HostPlatform \in DOMAIN files THEN files[HostPlatform]
               ELSE IF there # <<>> THEN files[Head(there)] ELSE NotFound
       ELSE IF Len(name) > 1 /\ version \in DOMAIN tree.dirs
                /\ platform \in DOMAIN tree.dirs[version]
       THEN tree.dirs[version][platform]
       ELSE NotFound

\* namesIn: a directory answers to its own name and to one per platform in it.
NamesIn(tree) ==
    DOMAIN tree.flat
    \cup UNION {{d} \cup {Append(d, p) : p \in DOMAIN tree.dirs[d]} :
                  d \in {d \in DOMAIN tree.dirs : DOMAIN tree.dirs[d] # {}}}

\* groupsIn: the platforms of each name it lists, none of a flat file's, which is listed
\* after a directory of its name and takes its place.
GroupsIn(tree) ==
    [n \in DOMAIN tree.flat \cup {d \in DOMAIN tree.dirs : DOMAIN tree.dirs[d] # {}} |->
        IF n \in DOMAIN tree.flat THEN {} ELSE DOMAIN tree.dirs[n]]

\* Split, the platform of this machine where the name has none (saveProfile).
Split(name) ==
    IF Len(name) > 1 /\ Last(name) \in ToSet(Platforms)
    THEN [version |-> Front(name), platform |-> Last(name)]
    ELSE [version |-> name, platform |-> HostPlatform]

-----------------------------------------------------------------------------
(* All of them, with what was added and the directory of the machine. *)

Stock(name) ==
    [name |-> name, agent |-> None, raw |-> None, base |-> name, http2 |-> None,
     headers |-> <<>>, http1 |-> None, of |-> [base |-> name]]

\* Mutant: what is shipped stands before what this machine has measured
ResolveShippedFirst(added, dir, name) ==
    IF name \in DOMAIN added THEN added[name]
    ELSE IF name \in DOMAIN Files THEN Files[name]
    ELSE IF Lookup(Embedded, name) # NotFound THEN Lookup(Embedded, name)
    ELSE IF Lookup(dir, name) # NotFound THEN Lookup(dir, name)
    ELSE IF name \in DOMAIN Catalogue THEN Stock(name)
    ELSE NotFound
\* Get, of a name that is no family: what it names, Broken when that does not load, which
\* ends the search.
Resolve(added, dir, name) ==
    IF name \in DOMAIN added THEN added[name]
    ELSE IF name \in DOMAIN Files THEN Files[name]
    ELSE IF Lookup(dir, name) # NotFound THEN Lookup(dir, name)
    ELSE IF Lookup(Embedded, name) # NotFound THEN Lookup(Embedded, name)
    ELSE IF name \in DOMAIN Catalogue THEN Stock(name)
    ELSE NotFound

\* Names.
AllNames(added, dir) == DOMAIN added \cup NamesIn(dir) \cup NamesIn(Embedded) \cup DOMAIN Catalogue

IsProfile(content) == content \notin {Broken, NotFound}
IsMeasured(content) == IsProfile(content) /\ content.raw # None
\* HasHandshake, of a name some source has.
HasHandshake(added, dir, name) == IsMeasured(Resolve(added, dir, name))

\* family_<number>
InFamily(family, name) ==
    Len(name) = Len(family) + 1 /\ Front(name) = family /\ Last(name) \in DOMAIN Number

Members(added, dir, family) == {n \in AllNames(added, dir) : InFamily(family, n)}

\* A member of a family before the one found so far: measured and that one not, or else of
\* the higher number, which is -1 of none.
Before(profile, name, best) ==
    \/ IsMeasured(profile) /\ ~IsMeasured(best.profile)
    \/ /\ IsMeasured(profile) <=> IsMeasured(best.profile)
       /\ Number[Last(name)] > IF best.name = None THEN -1 ELSE Number[Last(best.name)]

\* Mutant: the highest number, measured or not
NewestByNumber(added, dir, family) ==
    LET Better(name, best) ==
            IF best.name = None \/ Number[Last(name)] > Number[Last(best.name)]
            THEN [name |-> name, profile |-> Resolve(added, dir, name)] ELSE best
    IN FoldSet(Better, [name |-> None, profile |-> NotFound], Members(added, dir, family))
\* newestInFamily, and the profile it names: a measured name over one that is not, then the
\* higher number; none when the family has no member.  No two members of a family have one
\* number, so that the order the names are gone through in is no matter.
NewestInFamily(added, dir, family) ==
    LET Better(name, best) ==
            IF Before(Resolve(added, dir, name), name, best)
            THEN [name |-> name, profile |-> Resolve(added, dir, name)] ELSE best
    IN FoldSet(Better, [name |-> None, profile |-> NotFound], Members(added, dir, family))

\* Get: what the name names, else the newest of the family it names.
Get(added, dir, name) ==
    LET named == Resolve(added, dir, name)
    IN IF named # NotFound THEN named ELSE NewestInFamily(added, dir, name).profile

\* Measured: the groups of both trees, each with the platforms it has in either.
Measured(dir) ==
    LET shipped == GroupsIn(Embedded)
        local   == GroupsIn(dir)
    IN [n \in DOMAIN shipped \cup DOMAIN local |->
          (IF n \in DOMAIN shipped THEN shipped[n] ELSE {})
          \cup (IF n \in DOMAIN local THEN local[n] ELSE {})]
=============================================================================
