---------------------------- MODULE UniverseStore ----------------------------
(***************************************************************************)
(* Universes users save: one parquet file each in a directory that several *)
(* processes may share, and a copy in the memory of each process that has  *)
(* read it.  Older releases let a user file shadow the bundled universe    *)
(* that is now reserved; every load moves such a file to the first free    *)
(* legacy name, by linking and then unlinking, so that two processes that  *)
(* move it at once, or one that dies half way, lose and overwrite nothing. *)
(*                                                                          *)
(* A file is what it is linked to (its inode): two names may share one.    *)
(* A process answers one such request at a time: _universe_lifecycle_lock. *)
(***************************************************************************)
EXTENDS Naturals, FiniteSets, Sequences, SequencesExt

CONSTANTS
    Procs,          \* application processes that share the directory
    Reserved,       \* the reserved name, "sp500-lite"
    LegacyNames,    \* its legacy names, in the order they are tried
    OwnNames,       \* other names users give
    Contents,       \* membership lists
    NoFile

Names == {Reserved} \cup Range(LegacyNames) \cup OwnNames
Torn == "torn"      \* what a write that did not finish leaves

ASSUME UniverseAssumption ==
    /\ LegacyNames \in Seq(Range(LegacyNames)) /\ Len(LegacyNames) >= 2
    /\ Reserved \notin Range(LegacyNames) \cup OwnNames
    /\ Range(LegacyNames) \cap OwnNames = {}
    /\ \A i, j \in DOMAIN LegacyNames : LegacyNames[i] = LegacyNames[j] => i = j
    /\ NoFile \notin Names \cup Contents /\ Torn \notin Contents

VARIABLES
    link,       \* the inode each name is linked to; an inode has its first name
    data,       \* what an inode holds
    loaded,     \* each process's _universes
    at,         \* where each process is in a request
    dropped     \* a client removed the file that was moved, or cleared them all

universeVars == <<link, data, loaded, at, dropped>>

(* try: the legacy name looked at; unseen and linked: the scan for links;     *)
(* next: the name to go on with when it finds none, or 0.                    *)
Idle == [step |-> "idle", name |-> Reserved, after |-> "idle",
         try |-> 1, unseen |-> {}, linked |-> {}, next |-> 0]

UniversesTypeOK ==
    /\ link \in [Names -> Names \cup {NoFile}]
    /\ data \in [Names -> Contents \cup {Torn}]
    /\ loaded \in [Procs -> [Names \ {Reserved} -> Contents \cup {NoFile}]]
    /\ \A p \in Procs :
        /\ at[p].step \in {"idle", "load", "heal", "clean", "look", "link", "remove", "use",
                          "write"}
        /\ at[p].name \in Names /\ at[p].try \in 1 .. Len(LegacyNames) + 1
        /\ at[p].linked \subseteq Range(LegacyNames)
        /\ at[p].unseen \subseteq Range(LegacyNames) \ at[p].linked
    /\ dropped \in BOOLEAN

Exists(n) == link[n] # NoFile
SameFile(m, n) == Exists(m) /\ link[m] = link[n]

(* Directories to start from: no reserved file, one that was never moved,    *)
(* the name it would take in use, and moves that stopped after one or, by    *)
(* two processes, two links.                                                 *)
Directories ==
    LET none == [n \in Names |-> NoFile]
        old == [none EXCEPT ![Reserved] = Reserved]
        first == LegacyNames[1]
        second == LegacyNames[2]
    IN  {none, old, [old EXCEPT ![first] = first], [old EXCEPT ![first] = Reserved],
         [old EXCEPT ![first] = Reserved, ![second] = Reserved]}

UniversesInit ==
    /\ link \in Directories
    /\ data \in [Names -> Contents] /\ \A m, n \in Names : data[m] = data[n]
    /\ loaded = [p \in Procs |-> [n \in Names \ {Reserved} |-> NoFile]]
    /\ at = [p \in Procs |-> Idle]
    /\ dropped = ~Exists(Reserved)

-----------------------------------------------------------------------------
(* Requests.  A list, a resolution and a deletion load first; a save does    *)
(* not.                                                                      *)

Free(p) == at[p].step = "idle"
Healing(now, next) ==
    [now EXCEPT !.step = "heal", !.unseen = Range(LegacyNames), !.linked = {}, !.next = next]

Migrated(p) == at' = [at EXCEPT ![p].step = "load"]
Unlinked(n) == link' = [link EXCEPT ![n] = NoFile]
Forgotten(p, gone) ==
    loaded' = [loaded EXCEPT ![p] = [n \in DOMAIN @ |-> IF n \in gone THEN NoFile ELSE @[n]]]

(* after: "idle" for a request that lists, "use" for one that needs the      *)
(* universe, "remove" for its deletion.                                      *)
AskUniverse(p, n, after) ==
    /\ Free(p)
    /\ after \in {"remove", "use"} <=> n # Reserved
    /\ at' = [at EXCEPT ![p] =
                IF Exists(Reserved)
                THEN Healing([Idle EXCEPT !.name = n, !.after = after], 1)
                ELSE [Idle EXCEPT !.step = "load", !.name = n, !.after = after]]
    /\ UNCHANGED <<link, data, loaded, dropped>>

(* heal_linked_destinations looks at one name after the other for links to   *)
(* the reserved file.                                                        *)
ScanName(p, n) ==
    /\ at[p].step = "heal" /\ n \in at[p].unseen
    /\ at' = [at EXCEPT ![p].unseen = @ \ {n},
                        ![p].linked = @ \cup (IF SameFile(Reserved, n) THEN {n} ELSE {})]
    /\ UNCHANGED <<link, data, loaded, dropped>>

ScanEnds(p) ==
    /\ at[p].step = "heal" /\ at[p].unseen = {}
    /\ at' = [at EXCEPT ![p] =
                IF @.linked # {} THEN [@ EXCEPT !.step = "clean"]
                ELSE IF @.next = 0 THEN [@ EXCEPT !.step = "load"]
                ELSE [@ EXCEPT !.step = "look", !.try = at[p].next]]
    /\ UNCHANGED <<link, data, loaded, dropped>>

(* The first of them in the order names are tried is kept.                   *)
Kept(linked) == LegacyNames[SelectInSeq(LegacyNames, LAMBDA n : n \in linked)]

RemoveDuplicate_AnyButOne(p, n) ==
    /\ at[p].step = "clean" /\ n \in at[p].linked /\ at[p].linked # {n}
    /\ Unlinked(n)
    /\ Forgotten(p, {n})
    /\ at' = [at EXCEPT ![p].linked = @ \ {n}]
    /\ UNCHANGED <<data, dropped>>

(* One name is removed at a time: the duplicates, then the reserved name.    *)
(* A name that went meanwhile is passed over.                                *)
RemoveDuplicate(p, n) ==
    /\ at[p].step = "clean" /\ n \in at[p].linked \ {Kept(at[p].linked)}
    /\ Unlinked(n)
    /\ Forgotten(p, {n})
    /\ at' = [at EXCEPT ![p].linked = @ \ {n}]
    /\ UNCHANGED <<data, dropped>>

RemoveReserved(p) ==
    /\ at[p].step = "clean" /\ Cardinality(at[p].linked) = 1
    /\ Unlinked(Reserved)
    /\ Forgotten(p, at[p].linked)
    /\ Migrated(p)
    /\ UNCHANGED <<data, dropped>>

(* An unlink the file system refuses leaves the rest to a later load.        *)
CleanRefused(p) ==
    /\ at[p].step = "clean"
    /\ Migrated(p)
    /\ UNCHANGED <<link, data, loaded, dropped>>

(* exists(): a name in use is skipped, after another scan.                   *)
LookForName(p) ==
    /\ at[p].step = "look" /\ at[p].try <= Len(LegacyNames)
    /\ at' = [at EXCEPT ![p] =
                IF ~Exists(LegacyNames[at[p].try]) THEN [@ EXCEPT !.step = "link"]
                ELSE Healing(at[p], at[p].try + 1)]
    /\ UNCHANGED <<link, data, loaded, dropped>>

(* Bound: the names that are tried.                                          *)
OutOfNames(p) ==
    /\ at[p].step = "look" /\ at[p].try > Len(LegacyNames)
    /\ Migrated(p)
    /\ UNCHANGED <<link, data, loaded, dropped>>

(* os.link never overwrites: a name taken since is scanned for and skipped.  *)
LinkName(p) ==
    /\ at[p].step = "link"
    /\ LET n == LegacyNames[at[p].try] IN
       IF Exists(n)
       THEN /\ at' = [at EXCEPT ![p] = Healing(at[p], at[p].try + 1)]
            /\ UNCHANGED link
       ELSE /\ Exists(Reserved)
            /\ link' = [link EXCEPT ![n] = link[Reserved]]
            /\ at' = [at EXCEPT ![p] = Healing(at[p], 0)]
    /\ UNCHANGED <<data, loaded, dropped>>

(* The file system refuses the link, or the reserved file is gone.           *)
LinkRefused(p) ==
    /\ at[p].step = "link" /\ ~Exists(LegacyNames[at[p].try])
    /\ Migrated(p)
    /\ UNCHANGED <<link, data, loaded, dropped>>

(* A faulty variant: whatever is there is taken for a universe.              *)
AfterLoad_AnyFile(p) ==
    [n \in DOMAIN loaded[p] |->
        IF loaded[p][n] = NoFile /\ Exists(n) THEN data[link[n]] ELSE loaded[p][n]]

(* Files not in memory are read; one that cannot be is left for another time *)
(* and the reserved name is never read.                                      *)
AfterLoad(p) ==
    [n \in DOMAIN loaded[p] |->
        IF loaded[p][n] = NoFile /\ Exists(n) /\ data[link[n]] # Torn
        THEN data[link[n]] ELSE loaded[p][n]]

LoadFiles(p) ==
    /\ at[p].step = "load"
    /\ loaded' = [loaded EXCEPT ![p] = AfterLoad(p)]
    /\ at' = [at EXCEPT ![p] = IF at[p].after = "idle" THEN Idle
                               ELSE [Idle EXCEPT !.step = at[p].after, !.name = at[p].name]]
    /\ UNCHANGED <<link, data, dropped>>

(* A deletion finds the universe in memory or its file, or answers 404.      *)
RemoveUniverse(p) ==
    /\ at[p].step = "remove"
    /\ LET n == at[p].name IN
       /\ loaded[p][n] # NoFile \/ Exists(n)
       /\ Forgotten(p, {n})
       /\ Unlinked(n)
       /\ dropped' = (dropped \/ link[n] = Reserved)
    /\ at' = [at EXCEPT ![p] = Idle]
    /\ UNCHANGED data

RemoveUnknown(p) ==
    /\ at[p].step = "remove"
    /\ loaded[p][at[p].name] = NoFile /\ ~Exists(at[p].name)
    /\ at' = [at EXCEPT ![p] = Idle]
    /\ UNCHANGED <<link, data, loaded, dropped>>

(* _resolve_universe: what a request that needs it works with, or 404.       *)
UseUniverse(p) ==
    /\ at[p].step = "use"
    /\ at' = [at EXCEPT ![p] = Idle]
    /\ UNCHANGED <<link, data, loaded, dropped>>

(* A save opens its file, which cuts it, and then fills it in place.         *)
BeginSave(p, n) ==
    /\ Free(p)
    /\ LET inode == IF Exists(n) THEN link[n] ELSE n IN
       /\ link' = [link EXCEPT ![n] = inode]
       /\ data' = [data EXCEPT ![inode] = Torn]
    /\ at' = [at EXCEPT ![p] = [Idle EXCEPT !.step = "write", !.name = n]]
    /\ UNCHANGED <<loaded, dropped>>

EndSave(p, c) ==
    /\ at[p].step = "write"
    /\ LET n == at[p].name IN
       /\ data' = IF Exists(n) THEN [data EXCEPT ![link[n]] = c] ELSE data
       /\ loaded' = [loaded EXCEPT ![p][n] = c]
    /\ at' = [at EXCEPT ![p] = Idle]
    /\ UNCHANGED <<link, dropped>>

(* POST /data/clear asks no lock and leaves what is in memory.               *)
ClearUniverses ==
    /\ link' = [n \in Names |-> NoFile]
    /\ dropped' = TRUE
    /\ UNCHANGED <<data, loaded, at>>

CrashProcess(p) ==
    /\ at' = [at EXCEPT ![p] = Idle]
    /\ loaded' = [loaded EXCEPT ![p] = [n \in DOMAIN @ |-> NoFile]]
    /\ UNCHANGED <<link, data, dropped>>

-----------------------------------------------------------------------------
(* The file that had the reserved name is under some name until a client     *)
(* removes it ("Preserve that file ... under the first free legacy id"),     *)
(* however the moves of two processes interleave and wherever one stops.     *)
LegacyFileKept == dropped \/ \E n \in Names : link[n] = Reserved
=============================================================================
