\* One file of a folder and one of the root, two shards that do not have the
\* same files, an edit, and two maps: the second may leave any part of what
\* the first wrote, or find it.
CONSTANTS
    Files = {1, 2}
    FolderOf <- Folders
    RootDir = "."
    Contents = {a, b}
    Includes <- Whitelists
    Shards = {1, 2}
    Indexed <- FilesAndDocs
    Relations = {2}
    Queries <- Asked
    Absent = Absent
    Torn = Torn
    MaxEdits = 1
    MaxMaps = 2
SYMMETRY SameContents
SPECIFICATION Spec
INVARIANTS
    MapAgrees
    CheckIsRight
    CacheWhole
    QueryComplete
    QueryCurrent
