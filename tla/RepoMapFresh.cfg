\* A map killed while it rewrites a shard of an unchanged repository.
CONSTANTS
    Files = {1, 2}
    FolderOf <- Folders
    RootDir = "."
    Contents = {a, b}
    Includes <- Whitelists
    Shards = {1, 2}
    Indexed <- FilesAndDocs
    Relations = {2}
    Queries <- Asked
    Absent = Absent
    Torn = Torn
    MaxEdits = 0
    MaxMaps = 2
SYMMETRY SameContents
SPECIFICATION Spec
INVARIANTS
    FreshMeansCurrent
