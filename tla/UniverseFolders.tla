--------------------------- MODULE UniverseFolders ---------------------------
(***************************************************************************)
(* Folders of the universe list: where a universe is shown, never what it  *)
(* is.  The packaged manifest declares folders and a default place for its *)
(* own universes; universe_folders.json holds what users changed.  Every   *)
(* operation reads the file, decides and writes it under one lock, so each *)
(* is one action; only the names of the universes a deletion has to move   *)
(* are collected before it.  Folder names are left out: a request that     *)
(* fails a check on them is one that is refused.                           *)
(***************************************************************************)
EXTENDS Naturals, FiniteSets

CONSTANTS
    Builtin,        \* folders the manifest declares
    UserFolders,    \* ids of folders users may create
    Bundled,        \* universes that are always there
    Custom,         \* universes users save
    Top,            \* the top level
    Unset,          \* no entry in the file
    DefaultParent,  \* where the manifest puts each of its folders
    DefaultPlace,   \* and each of its universes
    MaxDepth        \* how deep folders may be nested

Folders == Builtin \cup UserFolders
Places == Folders \cup {Top}
UniverseNames == Bundled \cup Custom

ASSUME FolderAssumption ==
    /\ DefaultParent \in [Builtin -> Builtin \cup {Top}]
    /\ DefaultPlace \in [Bundled -> Builtin \cup {Top}]
    /\ IsFiniteSet(Builtin)
    /\ \E level \in [Builtin -> 1 .. Cardinality(Builtin)] :     \* a parent's path is shorter
          \A f \in Builtin : DefaultParent[f] \in Builtin => level[DefaultParent[f]] < level[f]
    /\ MaxDepth \in Nat \ {0}
    /\ Builtin \cap UserFolders = {} /\ Bundled \cap Custom = {}
    /\ {Top, Unset} \cap Folders = {} /\ Top # Unset

VARIABLES
    stored,     \* the parent the file holds for a folder, or Unset
    gone,       \* manifest folders users deleted
    placed,     \* the place users chose for a universe, or Unset
    deletion    \* a deletion under way: its folder and the universes it knows

folderVars == <<stored, gone, placed, deletion>>

NoDeletion == [folder |-> Top, known |-> {}]

FoldersTypeOK ==
    /\ stored \in [Folders -> Places \cup {Unset}]
    /\ gone \subseteq Builtin
    /\ placed \in [UniverseNames -> Places \cup {Unset}]
    /\ deletion \in [folder : Places, known : SUBSET UniverseNames]

FoldersInit ==
    /\ stored = [f \in Folders |-> Unset]
    /\ gone = {}
    /\ placed = [u \in UniverseNames |-> Unset]
    /\ deletion = NoDeletion

-----------------------------------------------------------------------------
(* What the list shows.                                                      *)

OwnParent(f) ==
    IF stored[f] # Unset THEN stored[f]
    ELSE IF f \in Builtin THEN DefaultParent[f] ELSE Top

Standing == {f \in Folders : f \notin gone /\ (f \in Builtin \/ stored[f] # Unset)}

(* From a place up to the nearest folder that stands: past manifest folders  *)
(* that were deleted, and to the top level from a user's.                    *)
LiveParent(place) ==
    LET up[p \in Places] ==
            IF p \in Standing \cup {Top} THEN p
            ELSE IF p \in Builtin THEN up[DefaultParent[p]] ELSE Top
    IN  up[place]

ShownParent(f) == LiveParent(OwnParent(f))

ShownPlace(u) ==
    LET up[p \in Places] ==
            IF p \in Standing \cup {Top} THEN p
            ELSE IF p \in Builtin THEN up[OwnParent(p)] ELSE Top
    IN  up[IF placed[u] # Unset THEN placed[u]
           ELSE IF u \in Bundled THEN DefaultPlace[u] ELSE Top]

(* A folder and those it is nested in.                                       *)
Line(place) ==
    LET line[p \in Standing \cup {Top}] ==
            IF p = Top THEN {} ELSE {p} \cup line[ShownParent(p)]
    IN  line[place]

Depth(place) == Cardinality(Line(place))

(* Levels of the part of the tree that hangs from f, f included.             *)
SubtreeHeight(f) ==
    Cardinality({Depth(g) : g \in {h \in Standing : f \in Line(h)}})

-----------------------------------------------------------------------------
(* Requests.                                                                 *)

CreateFolder(f, parent) ==
    /\ f \in UserFolders /\ stored[f] = Unset
    /\ parent \in Standing \cup {Top}
    /\ Depth(parent) < MaxDepth
    /\ stored' = [stored EXCEPT ![f] = parent]
    /\ UNCHANGED <<gone, placed, deletion>>

(* A rename stores the parent the folder is shown under, too.                *)
UpdateFolder(f, parent) ==
    /\ f \in Standing
    /\ parent \in Standing \cup {Top}
    /\ f \notin Line(parent)
    /\ Depth(parent) + SubtreeHeight(f) <= MaxDepth
    /\ stored' = [stored EXCEPT ![f] = parent]
    /\ UNCHANGED <<gone, placed, deletion>>

RenameFolder(f) == f \in Standing /\ UpdateFolder(f, ShownParent(f))

AskDeletion(f, known) ==
    /\ deletion = NoDeletion
    /\ f \in Folders
    /\ deletion' = [folder |-> f, known |-> known]
    /\ UNCHANGED <<stored, gone, placed>>

DeleteFolder_ChildrenOnly ==
    LET f == deletion.folder
        to == ShownParent(f)
    IN  /\ f \in Standing
        /\ stored' = [g \in Folders |->
                        IF g = f THEN Unset
                        ELSE IF g \in Standing /\ ShownParent(g) = f THEN to
                        ELSE stored[g]]
        /\ gone' = gone \cup ({f} \cap Builtin)
        /\ deletion' = NoDeletion
        /\ UNCHANGED placed

(* What is shown directly in the folder is stored where the folder was.      *)
DeleteFolder ==
    LET f == deletion.folder
        to == ShownParent(f)
    IN  /\ f \in Standing
        /\ placed' = [u \in UniverseNames |->
                        IF u \in deletion.known /\ ShownPlace(u) = f THEN to
                        ELSE placed[u]]
        /\ stored' = [g \in Folders |->
                        IF g = f THEN Unset
                        ELSE IF g \in Standing /\ ShownParent(g) = f THEN to
                        ELSE stored[g]]
        /\ gone' = gone \cup ({f} \cap Builtin)
        /\ deletion' = NoDeletion

(* The folder went since the names were collected: 404.                      *)
RefuseDeletion ==
    /\ deletion # NoDeletion /\ deletion.folder \notin Standing
    /\ deletion' = NoDeletion
    /\ UNCHANGED <<stored, gone, placed>>

MoveUniverses(names, place) ==
    /\ place \in Standing \cup {Top}
    /\ placed' = [u \in UniverseNames |-> IF u \in names THEN place ELSE placed[u]]
    /\ UNCHANGED <<stored, gone, deletion>>

ForgetUniverse(u) == placed' = [placed EXCEPT ![u] = Unset]

-----------------------------------------------------------------------------
(* A deletion moves what is shown directly in its folder, of the universes   *)
(* it was told of, to where the folder was; every other folder and every     *)
(* other universe of those stays where it is shown (the module's docstring:  *)
(* "Deleting a folder moves its child folders and universes to the deleted   *)
(* folder's parent").  Left out: a universe saved and moved into the folder  *)
(* after the names were collected.                                           *)
DeletedFolderMovesUp ==
    [][\A f \in Standing \ Standing' :
        LET to == ShownParent(f) IN
        /\ \A g \in Standing \ {f} :
              /\ g \in Standing'
              /\ ShownParent(g)' = IF ShownParent(g) = f THEN to ELSE ShownParent(g)
        /\ \A u \in deletion.known :
              ShownPlace(u)' = IF ShownPlace(u) = f THEN to ELSE ShownPlace(u)]_folderVars
=============================================================================
